---- MODULE Spec2Model ----
(***************************************************************************)
(* A model of the EPub book facade of src/epub.ts.  The file holds two     *)
(* variants of the class: the event-signalling one (lines 92-700, parse    *)
(* followed by an 'end' or 'error' event) and the promise-returning one    *)
(* (lines 815-1318).  The variable `variant` says which one an instance    *)
(* is.                                                                     *)
(*                                                                         *)
(* Text is modelled as a sequence of one-character strings, so that        *)
(* toLowerCase, trim, split, join and substring are computed and not       *)
(* assumed.  An XML document is modelled by the tree the parser delivers   *)
(* for it, or by the diagnostic the parser fails with.                     *)
(***************************************************************************)
EXTENDS Integers, Sequences, FiniteSets, TLC

VARIABLES
    variant,        \* "event" | "promise": which class the instance is
    disk,           \* index in Archives of the archive now stored at this.filename
    zip,            \* this.zip: index of the archive opened last (0: never set)
    metadata, manifest, guide, spine, flow, toc, version,
    heap,           \* the ManifestItem objects; manifest, spine, flow and toc refer to them
    containerFile, mimeFile, rootFile,
    n,              \* number of parse invocations started so far
    pc,             \* pc[i]: where invocation i stands
    data,           \* data[i]: what the wait of invocation i delivers when it ends
    pending,        \* pending[i]: number of asynchronous waits invocation i has outstanding
    reads,          \* reads[i]: the archive entry reads invocation i issued, in order
    ends,           \* ends[i]: how often invocation i signalled success
    errors,         \* errors[i]: how often invocation i signalled failure
    err,            \* err[i]: the error invocation i signalled last
    failStage,      \* failStage[i]: the stage in which invocation i failed ("" if it did not)
    writer,         \* writer[f]: the invocation that assigned public field f last (0: the constructor)
    loc,            \* loc[i]: the local variables invocation i holds across a wait
    snap,           \* snap[i]: the entities as they stood when invocation i completed
    archOf,         \* archOf[i]: the archive invocation i found at this.filename (0: not yet opened)
    failures,       \* every (stage, message) pair some invocation failed with
    args,           \* the arguments the constructor was called with
    imageroot, linkroot,
    ncalls,         \* number of retrieval and walkNavMap calls started so far
    calls           \* calls[c]: call c, what it waits for and what it delivered

vars == <<variant, disk, zip, metadata, manifest, guide, spine, flow, toc, version,
          heap, containerFile, mimeFile, rootFile, n, pc, data, pending, reads,
          ends, errors, err, failStage, writer, loc, snap, archOf, failures,
          args, imageroot, linkroot, ncalls, calls>>

\* The number of parse invocations one behaviour issues.
MaxParses == 2

\* The number of retrieval and walkNavMap calls one behaviour issues.
MaxCalls == 2

(***************************************************************************)
(* Text                                                                    *)
(***************************************************************************)
UpperChars == <<"A","B","C","D","E","F","G","H","I","J","K","L","M",
                "N","O","P","Q","R","S","T","U","V","W","X","Y","Z">>
LowerChars == <<"a","b","c","d","e","f","g","h","i","j","k","l","m",
                "n","o","p","q","r","s","t","u","v","w","x","y","z">>

toLowerCaseChar(c) ==
    IF \E k \in 1..26 : UpperChars[k] = c
    THEN LowerChars[CHOOSE k \in 1..26 : UpperChars[k] = c]
    ELSE c

toLowerCase(s) == [k \in 1..Len(s) |-> toLowerCaseChar(s[k])]

IsSpace(c) == c \in {" ", "\n", "\t", "\r"}

RECURSIVE trimStart(_)
trimStart(s) == IF s # << >> /\ IsSpace(Head(s)) THEN trimStart(Tail(s)) ELSE s

RECURSIVE trimEnd(_)
trimEnd(s) ==
    IF s # << >> /\ IsSpace(s[Len(s)]) THEN trimEnd(SubSeq(s, 1, Len(s) - 1)) ELSE s

trim(s) == trimEnd(trimStart(s))

\* s.substring(0, k)
substring0(s, k) == SubSeq(s, 1, IF k < Len(s) THEN k ELSE Len(s))

\* s.split(sep): the pieces of s between the occurrences of the character sep
RECURSIVE split(_, _)
split(s, sep) ==
    IF \E k \in 1..Len(s) : s[k] = sep
    THEN LET k == CHOOSE j \in 1..Len(s) : s[j] = sep /\ \A m \in 1..(j - 1) : s[m] # sep
         IN  <<SubSeq(s, 1, k - 1)>> \o split(SubSeq(s, k + 1, Len(s)), sep)
    ELSE <<s>>

\* parts.join("/")
RECURSIVE join(_)
join(parts) ==
    IF parts = << >> THEN << >>
    ELSE IF Len(parts) = 1 THEN parts[1]
    ELSE parts[1] \o <<"/">> \o join(Tail(parts))

\* const path = name.split("/"); path.pop();
dirOf(name) == LET p == split(name, "/") IN SubSeq(p, 1, Len(p) - 1)

\* (fullKey.split(":").pop() || "").toLowerCase().trim()
localName(fullKey) ==
    LET p == split(fullKey, ":") IN trim(toLowerCase(p[Len(p)]))

Digits == <<"0","1","2","3","4","5","6","7","8","9">>
IsDigit(c) == \E k \in 1..10 : Digits[k] = c
DigitVal(c) == (CHOOSE k \in 1..10 : Digits[k] = c) - 1

RECURSIVE digitsVal(_)
digitsVal(s) == IF s = << >> THEN 0 ELSE 10 * digitsVal(SubSeq(s, 1, Len(s) - 1)) + DigitVal(s[Len(s)])

\* Number(s) for the decimal integers; any other text is not a number (NaN)
toNumber(s) ==
    LET t == trim(s) IN
    IF t = << >> THEN [nan |-> FALSE, val |-> 0]
    ELSE IF \A k \in 1..Len(t) : IsDigit(t[k]) THEN [nan |-> FALSE, val |-> digitsVal(t)]
    ELSE IF Len(t) > 1 /\ t[1] = "-" /\ \A k \in 2..Len(t) : IsDigit(t[k])
         THEN [nan |-> FALSE, val |-> 0 - digitsVal(Tail(t))]
    ELSE [nan |-> TRUE, val |-> 0]

(***************************************************************************)
(* Maps (JavaScript objects used as dictionaries)                          *)
(***************************************************************************)
EmptyMap == [x \in {} |-> << >>]
MapPut(m, k, v) == [x \in (DOMAIN m) \cup {k} |-> IF x = k THEN v ELSE m[x]]
Has(m, k) == k \in DOMAIN m

\* the names every object inherits, this.manifest = {} and idList = {} included
Id_constructor == <<"c","o","n","s","t","r","u","c","t","o","r">>
InheritedKeys == {Id_constructor}

(***************************************************************************)
(* The texts the code compares with                                        *)
(***************************************************************************)
S_mimetype == <<"m","i","m","e","t","y","p","e">>
S_containerXml == <<"m","e","t","a","-","i","n","f","/","c","o","n","t","a","i","n","e","r",".","x","m","l">>
S_epubZip == <<"a","p","p","l","i","c","a","t","i","o","n","/","e","p","u","b","+","z","i","p">>
S_oebpsPackage == <<"a","p","p","l","i","c","a","t","i","o","n","/","o","e","b","p","s","-","p","a","c","k","a","g","e","+","x","m","l">>
S_defaultVersion == <<"2",".","0">>
S_undefined == <<"u","n","d","e","f","i","n","e","d">>
SimpleMetadataKeys ==
    { <<"p","u","b","l","i","s","h","e","r">>, <<"t","i","t","l","e">>,
      <<"d","e","s","c","r","i","p","t","i","o","n">>, <<"d","a","t","e">>,
      <<"l","a","n","g","u","a","g","e">> }
S_language == <<"l","a","n","g","u","a","g","e">>
S_metadata == <<"m","e","t","a","d","a","t","a">>
S_manifest == <<"m","a","n","i","f","e","s","t">>
S_spine == <<"s","p","i","n","e">>
S_guide == <<"g","u","i","d","e">>

(***************************************************************************)
(* Errors: a fixed text followed by a computed text                        *)
(***************************************************************************)
Msg(text, arg) == [text |-> text, arg |-> arg]
NoError == Msg("", << >>)
E_invalidFile == Msg("Invalid/missing file", << >>)
E_noFiles == Msg("No files in archive", << >>)
E_noMimetype == Msg("No mimetype file in archive", << >>)
E_badMimetype == Msg("Unsupported mime type", << >>)
E_noContainer == Msg("No container file in archive", << >>)
E_noRootfiles == Msg("No rootfiles found", << >>)
E_rootfileFormat == Msg("Rootfile in unknown format", << >>)
E_emptyRootfile == Msg("Empty rootfile", << >>)
E_rootfileNotFound == Msg("Rootfile not found from archive", << >>)
\* `Entry not found: ${name}`
E_entryNotFound(name) == Msg("Entry not found: ", name)
\* "Parsing container XML failed in TOC: " + err.message
E_tocParse(diag) == Msg("Parsing container XML failed in TOC: ", diag)
\* for (const item of items) over an object that is no array
E_notIterable == Msg("items is not iterable", << >>)
\* what a throwing 'end' listener throws
E_listener == Msg("thrown by the 'end' listener", << >>)
\* a property read of undefined or of false
E_typeError == Msg("TypeError", << >>)

(***************************************************************************)
(* Archives.  An entry's content is the text of a plain entry, or for an   *)
(* XML entry what the XML parser makes of it: a tree, or a diagnostic.     *)
(***************************************************************************)
Text(t) == [kind |-> "text", text |-> t]
Malformed(diag) == [kind |-> "bad", diag |-> diag]
RootfileDecl(mt, fp) == [mediaType |-> mt, fullPath |-> fp]
ContainerDoc(rfs) == [kind |-> "container", rootfiles |-> rfs]
PackageDoc(ver, children) == [kind |-> "package", version |-> ver, children |-> children]
NcxDoc(navPoints) == [kind |-> "ncx", navPoints |-> navPoints]

ItemDecl(id, href, mt) == [id |-> id, href |-> href, mt |-> mt]
MetadataEl(entries) == [tag |-> <<"m","e","t","a","d","a","t","a">>, entries |-> entries]
ManifestEl(tag, items) == [tag |-> tag, items |-> items]
SpineEl(tocId, itemrefs) == [tag |-> <<"s","p","i","n","e">>, toc |-> tocId, itemrefs |-> itemrefs]
GuideEl(refs) == [tag |-> <<"g","u","i","d","e">>, refs |-> refs]
NavPoint(hasLabel, text, playOrder, src, id, children) ==
    [hasLabel |-> hasLabel, text |-> text, playOrder |-> playOrder, src |-> src,
     id |-> id, children |-> children]

N_mimetype == S_mimetype
N_MIMETYPE == <<"M","I","M","E","T","Y","P","E">>
N_container == <<"M","E","T","A","-","I","N","F","/","c","o","n","t","a","i","n","e","r",".","x","m","l">>
N_opf == <<"t","e","x","t","/","c",".","o","p","f">>
N_OPF == <<"T","e","x","t","/","C",".","O","P","F">>
N_ncx == <<"t","e","x","t","/","t",".","n","c","x">>
N_a == <<"t","e","x","t","/","a",".","h","t","m","l">>
N_b == <<"t","e","x","t","/","b",".","h","t","m","l">>
N_p == <<"t","e","x","t","/","t","e","x","t","u","r","e","s","/","p",".","p","n","g">>

MT_xhtml == <<"a","p","p","l","i","c","a","t","i","o","n","/","x","h","t","m","l","+","x","m","l">>
MT_ncx == <<"a","p","p","l","i","c","a","t","i","o","n","/","x","-","d","t","b","n","c","x","+","x","m","l">>
MT_png == <<"i","m","a","g","e","/","p","n","g">>

Id_ncx == <<"n","c","x">>
Id_a == <<"a">>
Id_b == <<"b">>
Id_p == <<"p">>
Id_zz == <<"z","z">>

D_ncx == ItemDecl(Id_ncx, <<"t",".","n","c","x">>, MT_ncx)
\* declared relative to the package document's directory
D_a == ItemDecl(Id_a, <<"a",".","h","t","m","l">>, MT_xhtml)
\* declared archive-root-relative already
D_b == ItemDecl(Id_b, N_b, MT_xhtml)
\* declared relative to the package document's directory "text"; its text starts with "text"
D_p == ItemDecl(Id_p, <<"t","e","x","t","u","r","e","s","/","p",".","p","n","g">>, MT_png)

MetaGood ==
    MetadataEl(<< [key |-> <<"d","c",":","t","i","t","l","e">>, text |-> <<" ","A","l","i","c","e"," ">>],
                  [key |-> <<"d","c",":","l","a","n","g","u","a","g","e">>, text |-> <<"E","N","-","u","s">>] >>)

GuideGood ==
    GuideEl(<< [type |-> <<"c","o","v","e","r">>, title |-> <<"C">>, href |-> <<"a",".","h","t","m","l">>] >>)

\* metadata, manifest, spine, guide in the order the OPF schema gives them
PkgGood ==
    PackageDoc(<<"3",".","0">>,
        << MetaGood,
           ManifestEl(<<"o","p","f",":","m","a","n","i","f","e","s","t">>, <<D_ncx, D_a, D_b>>),
           SpineEl(Id_ncx, <<Id_a, Id_zz, Id_b>>),
           GuideGood >>)

\* the spine element stands before the manifest element
PkgSpineFirst ==
    PackageDoc(<<"3",".","0">>,
        << MetaGood,
           SpineEl(Id_ncx, <<Id_a, Id_b>>),
           ManifestEl(S_manifest, <<D_ncx, D_a, D_b>>) >>)

\* a manifest of exactly one item, the navigation document
PkgOneItem ==
    PackageDoc(<<"3",".","0">>,
        << MetaGood, ManifestEl(S_manifest, <<D_ncx>>), SpineEl(Id_ncx, << >>) >>)

\* no version attribute, no navigation document, an image below text/textures
PkgPlain ==
    PackageDoc(<< >>,
        << ManifestEl(S_manifest, <<D_a, D_p>>), SpineEl(<< >>, <<Id_a>>), GuideGood >>)

\* a manifest of exactly one item and no navigation document
PkgSingle ==
    PackageDoc(<<"3",".","0">>,
        << MetaGood, ManifestEl(S_manifest, <<D_a>>), SpineEl(<< >>, <<Id_a>>) >>)

\* the id a is declared twice, the second time as an image
PkgRepeat ==
    PackageDoc(<<"3",".","0">>,
        << ManifestEl(S_manifest, <<D_a, D_b, ItemDecl(Id_a, N_p, MT_png)>>),
           SpineEl(<< >>, <<Id_a, Id_b>>) >>)

NcxGood ==
    NcxDoc(<< NavPoint(TRUE, <<"O","n","e"," ">>, <<"1">>, <<"a",".","h","t","m","l">>, <<"n","1">>,
                  << NavPoint(TRUE, << >>, <<"x">>, <<"c",".","h","t","m","l">>, <<"n","2">>, << >>) >>),
              NavPoint(FALSE, << >>, << >>, <<"b",".","h","t","m","l">>, <<"n","3">>, << >>) >>)

\* an empty label with a content reference; an empty label without one, over a child
\* whose playOrder is no number; a playOrder below zero
NcxOdd ==
    NcxDoc(<< NavPoint(TRUE, << >>, <<"1">>, <<"c",".","h","t","m","l">>, <<"n","1">>, << >>),
              NavPoint(TRUE, << >>, << >>, << >>, <<"n","2">>,
                  << NavPoint(TRUE, <<" ","K","i","d">>, <<"x">>, <<"a",".","h","t","m","l">>, <<"n","3">>, << >>) >>),
              NavPoint(TRUE, <<"N","e","g">>, <<"-","1">>, <<"d",".","h","t","m","l">>, <<"n","4">>, << >>) >>)

\* a part and its first chapter both refer to a.html, an item of the manifest; two
\* further nav-points both refer to c.html, which is no item
NcxTwice ==
    NcxDoc(<< NavPoint(TRUE, <<"P","a","r","t">>, <<"1">>, <<"a",".","h","t","m","l">>, <<"n","1">>,
                  << NavPoint(TRUE, <<"C","h","a","p">>, <<"2">>, <<"a",".","h","t","m","l">>, <<"n","2">>, << >>) >>),
              NavPoint(TRUE, <<"S","o","l","o">>, <<"3">>, <<"c",".","h","t","m","l">>, <<"n","3">>, << >>),
              NavPoint(TRUE, <<"E","n","d">>, <<"4">>, <<"c",".","h","t","m","l">>, <<"n","4">>, << >>) >>)

\* The number of levels of the nested navigation tree (levels 0 .. DeepLevels - 1).
DeepLevels == 9

\* a nav-point at level l with one child, down to level DeepLevels - 1
RECURSIVE DeepPoint(_)
DeepPoint(l) ==
    NavPoint(TRUE, <<"L", Digits[l + 1]>>, << >>, <<"d", Digits[l + 1]>>, <<"n", Digits[l + 1]>>,
             IF l + 1 < DeepLevels THEN <<DeepPoint(l + 1)>> ELSE << >>)

NcxDeep == NcxDoc(<<DeepPoint(0)>>)

Diag1 == <<"U","n","c","l","o","s","e","d"," ","r","o","o","t"," ","t","a","g">>
Diag2 == <<"U","n","e","x","p","e","c","t","e","d"," ","e","n","d">>

ContainerGood == ContainerDoc(<< RootfileDecl(S_oebpsPackage, N_opf) >>)

Archive(names, files) == [valid |-> TRUE, names |-> names, files |-> files]
Files(mime, container, package, ncx) ==
    [x \in {N_mimetype, N_MIMETYPE, N_container, N_opf, N_ncx, N_a, N_b, N_p} |->
        CASE x \in {N_mimetype, N_MIMETYPE} -> mime
          [] x = N_container -> container
          [] x = N_opf -> package
          [] x = N_ncx -> ncx
          [] OTHER -> Text(<<"<","p","/",">">>)]
GoodMime == Text(S_epubZip)
AllNames == <<N_mimetype, N_container, N_opf, N_ncx, N_a, N_b, N_p>>

\* a book whose package document lies in the root of the archive; the second nav-point
\* refers to a resource named constructor, which is no item
N_opfRoot == <<"c",".","o","p","f">>
N_ncxRoot == <<"t",".","n","c","x">>
N_aRoot == <<"a",".","h","t","m","l">>
PkgRoot ==
    PackageDoc(<<"3",".","0">>,
        << MetaGood, ManifestEl(S_manifest, <<D_ncx, D_a>>), SpineEl(Id_ncx, <<Id_a>>) >>)
NcxInherited ==
    NcxDoc(<< NavPoint(TRUE, <<"I","n","t","r","o">>, <<"1">>, N_aRoot, <<"n","1">>, << >>),
              NavPoint(TRUE, <<"N","o","t","e">>, <<"2">>, Id_constructor, <<"n","2">>, << >>) >>)
RootNames == <<N_mimetype, N_container, N_opfRoot, N_ncxRoot, N_aRoot>>
RootFiles ==
    [x \in {N_mimetype, N_container, N_opfRoot, N_ncxRoot, N_aRoot} |->
        CASE x = N_mimetype -> GoodMime
          [] x = N_container -> ContainerDoc(<< RootfileDecl(S_oebpsPackage, N_opfRoot) >>)
          [] x = N_opfRoot -> PkgRoot
          [] x = N_ncxRoot -> NcxInherited
          [] OTHER -> Text(<<"<","p","/",">">>)]

\* A chapter is written as its pieces: markup, and attributes name="value" with the
\* whitespace character before them.  The text of a piece is what stands in the file.
Raw(t) == [kind |-> "raw", lead |-> "", name |-> << >>, value |-> << >>, text |-> t]
Attr(lead, name, value) ==
    [kind |-> "attr", lead |-> lead, name |-> name, value |-> value,
     text |-> <<lead>> \o name \o <<"=", "\"">> \o value \o <<"\"">>]
\* an attribute written without quotes
Bare(lead, name, value) ==
    [kind |-> "bare", lead |-> lead, name |-> name, value |-> value,
     text |-> <<lead>> \o name \o <<"=">> \o value]

RECURSIVE Flatten(_)
Flatten(parts) == IF parts = << >> THEN << >> ELSE Head(parts).text \o Flatten(Tail(parts))

Chapters ==
    << \* 1: a body, a script block, a style block and a handler: all of them well-formed
       << Raw(<<"<","b","o","d","y",">","<","s","c","r","i","p","t",">","a","<","/","s","c","r","i","p","t",">","<","p">>),
          Attr(" ", <<"o","n","c","l","i","c","k">>, <<"f","(",")">>),
          Raw(<<">","x","<","/","p",">","<","s","t","y","l","e",">","p","{","}","<","/","s","t","y","l","e",">","<","/","b","o","d","y",">">>) >>,
       \* 2: a script block that is never closed
       << Raw(<<"<","p",">","a","<","/","p",">","<","s","c","r","i","p","t",">","a","l","e","r","t","(","1",")">>) >>,
       \* 3: a script tag around a script block
       << Raw(<<"<","s","c","r","<","s","c","r","i","p","t",">","<","/","s","c","r","i","p","t",">","i","p","t",">","a","<","/","s","c","r","i","p","t",">">>) >>,
       \* 4: a handler on a line of its own
       << Raw(<<"<","p">>),
          Attr("\n", <<"o","n","l","o","a","d">>, <<"f","(",")">>),
          Raw(<<">">>) >>,
       \* 5: an image the manifest holds and one it does not hold, with and without quotes
       << Raw(<<"<","i","m","g">>),
          Attr(" ", <<"s","r","c">>, <<"i",".","p","n","g">>),
          Raw(<<">","<","i","m","g">>),
          Attr(" ", <<"s","r","c">>, <<"n","o",".","p","n","g">>),
          Attr(" ", <<"a","l","t">>, <<"z">>),
          Raw(<<">","<","i","m","g">>),
          Bare(" ", <<"s","r","c">>, <<"n","o",".","p","n","g">>),
          Raw(<<">">>) >>,
       \* 6: links: to an item with a fragment, to no item, to an item declared with a fragment
       << Raw(<<"<","a">>),
          Attr(" ", <<"h","r","e","f">>, <<"k","1",".","h","t","m","l","#","x">>),
          Raw(<<">","t","<","/","a",">","<","a">>),
          Attr(" ", <<"h","r","e","f">>, <<"n","o",".","h","t","m","l","#","y">>),
          Raw(<<">","u","<","/","a",">","<","a">>),
          Attr(" ", <<"h","r","e","f">>, <<"f",".","h","t","m","l">>),
          Raw(<<">">>) >>,
       \* 7: a link on a line of its own
       << Raw(<<"<","a">>),
          Attr("\n", <<"h","r","e","f">>, <<"k","1",".","h","t","m","l">>),
          Raw(<<">">>) >>,
       \* 8: one handler in four letter cases
       << Raw(<<"<","p">>),
          Attr(" ", <<"o","n","c","l","i","c","k">>, <<"a","(",")">>),
          Attr(" ", <<"o","n","C","l","i","c","k">>, <<"b","(",")">>),
          Attr(" ", <<"O","n","C","l","i","c","k">>, <<"c","(",")">>),
          Attr(" ", <<"O","N","C","L","I","C","K">>, <<"d","(",")">>),
          Raw(<<">","x","<","/","p",">">>) >> >>

NChapters == Len(Chapters)
ChapterId(j) == <<"k", Digits[j + 1]>>
ChapterHref(j) == <<"k", Digits[j + 1], ".", "h", "t", "m", "l">>
ChapterName(j) == <<"t","e","x","t","/">> \o ChapterHref(j)

MT_css == <<"t","e","x","t","/","c","s","s">>
MT_PNG == <<"I","M","A","G","E","/","P","N","G">>
MT_svg == <<"i","m","a","g","e","/","s","v","g","+","x","m","l">>
MT_pngSpaced == <<" ","i","m","a","g","e","/","p","n","g"," ">>
Id_css == <<"c","s","s">>
Id_i == <<"i">>
Id_j == <<"j">>
Id_v == <<"v">>
Id_f == <<"f">>
N_css == <<"t","e","x","t","/","s",".","c","s","s">>
N_i == <<"t","e","x","t","/","i",".","p","n","g">>
N_j == <<"t","e","x","t","/","j",".","p","n","g">>
N_v == <<"t","e","x","t","/","v",".","s","v","g">>

\* the chapters, a style sheet, two images, a drawing and a chapter whose file the
\* archive lacks
PkgChapters ==
    PackageDoc(<<"3",".","0">>,
        << ManifestEl(S_manifest,
               [j \in 1..NChapters |-> ItemDecl(ChapterId(j), ChapterHref(j), MT_xhtml)]
                   \o << ItemDecl(Id_css, <<"s",".","c","s","s">>, MT_css),
                         ItemDecl(Id_i, <<"i",".","p","n","g">>, MT_PNG),
                         ItemDecl(Id_j, <<"j",".","p","n","g">>, MT_pngSpaced),
                         ItemDecl(Id_v, <<"v",".","s","v","g">>, MT_svg),
                         ItemDecl(Id_f, <<"f",".","h","t","m","l","#","t","o","p">>, MT_xhtml) >>),
           SpineEl(<< >>, <<ChapterId(1), ChapterId(2)>>) >>)

ChapterNames ==
    <<N_mimetype, N_container, N_opf>> \o [j \in 1..NChapters |-> ChapterName(j)] \o <<N_css, N_i, N_j, N_v>>

ChapterFiles ==
    [x \in {ChapterNames[k] : k \in 1..Len(ChapterNames)} |->
        CASE x = N_mimetype -> GoodMime
          [] x = N_container -> ContainerGood
          [] x = N_opf -> PkgChapters
          [] x = N_css -> Text(<<"p","{","}">>)
          [] x = N_v -> Text(<<"<","s","v","g","/",">">>)
          [] x \in {N_i, N_j} -> Text(<<"P","N","G">>)
          [] OTHER -> Text(Flatten(Chapters[CHOOSE j \in 1..NChapters : ChapterName(j) = x]))]

Archives ==
    << \* 1: a well-formed book with a navigation document
       Archive(AllNames, Files(GoodMime, ContainerGood, PkgGood, NcxGood)),
       \* 2: no archive can be opened at this.filename
       [valid |-> FALSE, names |-> << >>, files |-> EmptyMap],
       \* 3: an archive of no entries
       Archive(<< >>, EmptyMap),
       \* 4: no mimetype entry
       Archive(<<N_container, N_opf, N_ncx, N_a, N_b>>, Files(GoodMime, ContainerGood, PkgGood, NcxGood)),
       \* 5: a well-formed book, no navigation document; MIMETYPE in capitals
       Archive(<<N_MIMETYPE, N_container, N_opf, N_a, N_p>>,
               Files(Text(<<"A","p","p","l","i","c","a","t","i","o","n","/","E","P","U","B","+","Z","I","P","\n">>),
                     ContainerGood, PkgPlain, NcxGood)),
       \* 6: the mimetype entry holds another type
       Archive(AllNames, Files(Text(<<"t","e","x","t","/","p","l","a","i","n">>), ContainerGood, PkgGood, NcxGood)),
       \* 7: no container.xml
       Archive(<<N_mimetype, N_opf, N_ncx, N_a, N_b>>, Files(GoodMime, ContainerGood, PkgGood, NcxGood)),
       \* 8: container.xml is malformed XML
       Archive(AllNames, Files(GoodMime, Malformed(Diag1), PkgGood, NcxGood)),
       \* 9: container.xml declares no rootfile
       Archive(AllNames, Files(GoodMime, ContainerDoc(<< >>), PkgGood, NcxGood)),
       \* 10: the only rootfile is of another media type
       Archive(AllNames, Files(GoodMime, ContainerDoc(<< RootfileDecl(<<"t","e","x","t","/","x","m","l">>, N_opf) >>),
                               PkgGood, NcxGood)),
       \* 11: the rootfile declared is no entry of the archive
       Archive(AllNames, Files(GoodMime,
                               ContainerDoc(<< RootfileDecl(<<"t","e","x","t","/","x","m","l">>, N_opf),
                                               RootfileDecl(S_oebpsPackage, <<"t","e","x","t","/","x",".","o","p","f">>) >>),
                               PkgGood, NcxGood)),
       \* 12: the package document is malformed XML, in the way container.xml of 8 is
       Archive(AllNames, Files(GoodMime, ContainerGood, Malformed(Diag1), NcxGood)),
       \* 13: the spine element stands before the manifest element
       Archive(AllNames, Files(GoodMime, ContainerGood, PkgSpineFirst, NcxGood)),
       \* 14: the navigation document is malformed XML
       Archive(AllNames, Files(GoodMime, ContainerGood, PkgGood, Malformed(Diag2))),
       \* 15: the navigation document declared is no entry of the archive
       Archive(<<N_mimetype, N_container, N_opf, N_a, N_b>>, Files(GoodMime, ContainerGood, PkgGood, NcxGood)),
       \* 16: a manifest of one item, the navigation document, which is malformed XML
       Archive(AllNames, Files(GoodMime, ContainerGood, PkgOneItem, Malformed(Diag2))),
       \* 17: a manifest of one item, no navigation document
       Archive(AllNames, Files(GoodMime, ContainerGood, PkgSingle, NcxGood)),
       \* 18: an id declared twice
       Archive(AllNames, Files(GoodMime, ContainerGood, PkgRepeat, NcxGood)),
       \* 19: nav-points with empty labels, without content, with odd playOrder
       Archive(AllNames, Files(GoodMime, ContainerGood, PkgGood, NcxOdd)),
       \* 20: a navigation tree DeepLevels levels deep
       Archive(AllNames, Files(GoodMime, ContainerGood, PkgGood, NcxDeep)),
       \* 21: a book of chapters, a style sheet and images; no navigation document
       Archive(ChapterNames, ChapterFiles),
       \* 22: nav-points that refer to the same resource
       Archive(AllNames, Files(GoodMime, ContainerGood, PkgGood, NcxTwice)),
       \* 23: the package document in the root of the archive, a nav-point to "constructor"
       Archive(RootNames, RootFiles),
       \* 24: the rootfile declared is the name of the package entry in other letter case
       Archive(AllNames, Files(GoodMime, ContainerDoc(<< RootfileDecl(S_oebpsPackage, N_OPF) >>),
                               PkgGood, NcxGood)) >>

NArchives == Len(Archives)

\* zip.names.includes(name) and the content of the entry
HasEntry(a, name) == \E k \in 1..Len(Archives[a].names) : Archives[a].names[k] = name
EntryOf(a, name) == Archives[a].files[name]

\* for (const name of names) if (name.toLowerCase() === wanted) { found = name; break; }
FindName(names, wanted) ==
    IF \E k \in 1..Len(names) : toLowerCase(names[k]) = wanted
    THEN names[CHOOSE k \in 1..Len(names) :
                 /\ toLowerCase(names[k]) = wanted
                 /\ \A j \in 1..(k - 1) : toLowerCase(names[j]) # wanted]
    ELSE << >>

(***************************************************************************)
(* The entities.  A ManifestItem is an object of the heap; manifest.at     *)
(* maps an id to its object, manifest.keys is Object.keys(manifest).  The  *)
(* operators below take and return the record B of the instance's fields,  *)
(* with B.thrown the exception thrown, if any.                             *)
(***************************************************************************)
EmptyManifest == [keys |-> << >>, at |-> EmptyMap]
EmptySpine == [toc |-> 0, contents |-> << >>]

Item(id, href, mt) ==
    [id |-> id, href |-> href, mt |-> mt,
     enriched |-> FALSE, title |-> << >>, order |-> 0, level |-> 0]

Book ==
    [metadata |-> metadata, manifest |-> manifest, guide |-> guide, spine |-> spine,
     flow |-> flow, toc |-> toc, version |-> version, heap |-> heap,
     rootFile |-> rootFile, thrown |-> NoError]

\* href.substring(0, pathStr.length) !== pathStr ? path.concat([href]).join("/") : href
resolveHref(href, path) ==
    LET pathStr == join(path) IN
    IF href # << >> /\ substring0(href, Len(pathStr)) # pathStr
    THEN join(path \o <<href>>)
    ELSE href

\* this.manifest[id] = element
putItem(B, key, element) ==
    LET h == Append(B.heap, element) IN
    [B EXCEPT !.heap = h,
              !.manifest = [keys |-> IF Has(B.manifest.at, key) THEN B.manifest.keys
                                     ELSE Append(B.manifest.keys, key),
                            at |-> MapPut(B.manifest.at, key, Len(h))]]

RECURSIVE addItems(_, _, _, _)
addItems(B, items, path, v) ==
    IF items = << >> THEN B
    ELSE LET it == Head(items)
             element == Item(it.id, resolveHref(it.href, path), it.mt)
             B1 == IF v = "event"
                   THEN putItem(B, IF it.id = << >> THEN S_undefined ELSE it.id, element)
                   ELSE IF it.id # << >> THEN putItem(B, it.id, element) ELSE B
         IN  addItems(B1, Tail(items), path, v)

_parseManifest(B, el, v) ==
    LET path == dirOf(B.rootFile) IN
    IF B.rootFile = << >> THEN [B EXCEPT !.thrown = E_typeError]
    ELSE IF v = "event" /\ Len(el.items) = 1
    THEN [B EXCEPT !.thrown = E_notIterable]
    ELSE addItems(B, el.items, path, v)

RECURSIVE addRefs(_, _, _)
addRefs(B, refs, path) ==
    IF refs = << >> THEN B
    ELSE LET r == Head(refs)
             element == [type |-> r.type, title |-> r.title, href |-> resolveHref(r.href, path)]
         IN  addRefs([B EXCEPT !.guide = Append(B.guide, element)], Tail(refs), path)

\* _parseGuide that starts from an empty list
_parseGuide_fresh(B, el) ==
    IF B.rootFile = << >> THEN [B EXCEPT !.thrown = E_typeError]
    ELSE addRefs([B EXCEPT !.guide = << >>], el.refs, dirOf(B.rootFile))

_parseGuide(B, el) ==
    IF B.rootFile = << >> THEN [B EXCEPT !.thrown = E_typeError]
    ELSE addRefs(B, el.refs, dirOf(B.rootFile))

RECURSIVE addItemrefs(_, _, _)
addItemrefs(B, idrefs, v) ==
    IF idrefs = << >> THEN B
    ELSE LET idref == Head(idrefs)
             \* this.manifest[undefined] looks the key "undefined" up
             key == IF v = "event" /\ idref = << >> THEN S_undefined ELSE idref
             B1 == IF key # << >> /\ Has(B.manifest.at, key)
                   THEN [B EXCEPT !.spine.contents = Append(B.spine.contents, B.manifest.at[key])]
                   ELSE B
         IN  addItemrefs(B1, Tail(idrefs), v)

_parseSpine(B, el, v) ==
    LET B1 == IF el.toc # << >>
              THEN [B EXCEPT !.spine.toc = IF Has(B.manifest.at, el.toc)
                                           THEN B.manifest.at[el.toc] ELSE 0]
              ELSE B
        B2 == addItemrefs(B1, el.itemrefs, v)
    IN  IF v = "event" /\ el.itemrefs = << >>
        THEN B1
        ELSE [B2 EXCEPT !.flow = B2.spine.contents]

RECURSIVE addMetadata(_, _)
addMetadata(B, entries) ==
    IF entries = << >> THEN B
    ELSE LET e == Head(entries)
             key == localName(e.key)
             val == IF key = S_language THEN toLowerCase(trim(e.text)) ELSE trim(e.text)
             B1 == IF key \in SimpleMetadataKeys
                   THEN [B EXCEPT !.metadata = MapPut(B.metadata, key, val)]
                   ELSE B
         IN  addMetadata(B1, Tail(entries))

_parseMetadata(B, el) == addMetadata(B, el.entries)

RECURSIVE dispatchChildren(_, _, _)
dispatchChildren(B, children, v) ==
    IF children = << >> \/ B.thrown # NoError THEN B
    ELSE LET el == Head(children)
             key == localName(el.tag)
             B1 == CASE key = S_metadata -> _parseMetadata(B, el)
                     [] key = S_manifest -> _parseManifest(B, el, v)
                     [] key = S_spine -> _parseSpine(B, el, v)
                     [] key = S_guide -> _parseGuide(B, el)
                     [] OTHER -> B
         IN  dispatchChildren(B1, Tail(children), v)

_parseRootFile(B, doc, v) ==
    dispatchChildren(
        [B EXCEPT !.version = IF doc.version # << >> THEN doc.version ELSE S_defaultVersion],
        doc.children, v)

(***************************************************************************)
(* Navigation.  An entry of the table of contents is a ManifestItem of the *)
(* heap (ref > 0: the fields are the object's) or an object of its own.    *)
(***************************************************************************)
\* if (level > 7) return [];
MaxLevel == 7

TocAlias(ref) ==
    [ref |-> ref, level |-> 0, order |-> 0, title |-> << >>, id |-> << >>, href |-> << >>]
TocOwn(level, order, title, id, href) ==
    [ref |-> 0, level |-> level, order |-> order, title |-> title, id |-> id, href |-> href]

\* for (const key of Object.keys(this.manifest)) idList[this.manifest[key].href] = key;
RECURSIVE buildIdList(_, _, _)
buildIdList(B, keys, idList) ==
    IF keys = << >> THEN idList
    ELSE buildIdList(B, Tail(keys), MapPut(idList, B.heap[B.manifest.at[Head(keys)]].href, Head(keys)))

\* navPointEntry that wants a title: a nav-point of empty label adds nothing
navPointEntry_titled(B, item, path, idList, level) ==
    LET title == trim(item.text)
        num == toNumber(item.playOrder)
        order == IF num.nan THEN 0 ELSE num.val
        src == trim(item.src)
        href == join(path \o <<src>>)
        listed == Has(idList, href) /\ idList[href] # << >>
    IN  IF ~item.hasLabel \/ src = << >> \/ title = << >> THEN [B |-> B, out |-> << >>]
        ELSE IF href \in InheritedKeys \/ (listed /\ ~Has(B.manifest.at, idList[href]))
        THEN [B |-> [B EXCEPT !.thrown = E_typeError], out |-> << >>]
        ELSE IF listed
        THEN LET ref == B.manifest.at[idList[href]] IN
             [B |-> [B EXCEPT !.heap[ref] = [@ EXCEPT !.enriched = TRUE, !.title = title,
                                                      !.order = order, !.level = level]],
              out |-> <<TocAlias(ref)>>]
        ELSE [B |-> B, out |-> <<TocOwn(level, order, title, trim(item.id), href)>>]

\* navPointEntry that gives the aliased item the id of the nav-point
navPointEntry_ownId(B, item, path, idList, level) ==
    LET title == trim(item.text)
        num == toNumber(item.playOrder)
        order == IF num.nan THEN 0 ELSE num.val
        src == trim(item.src)
        href == join(path \o <<src>>)
        listed == Has(idList, href) /\ idList[href] # << >>
    IN  IF ~item.hasLabel \/ src = << >> THEN [B |-> B, out |-> << >>]
        ELSE IF href \in InheritedKeys \/ (listed /\ ~Has(B.manifest.at, idList[href]))
        THEN [B |-> [B EXCEPT !.thrown = E_typeError], out |-> << >>]
        ELSE IF listed
        THEN LET ref == B.manifest.at[idList[href]] IN
             [B |-> [B EXCEPT !.heap[ref] = [@ EXCEPT !.enriched = TRUE, !.title = title,
                                                      !.order = order, !.level = level,
                                                      !.id = trim(item.id)]],
              out |-> <<TocAlias(ref)>>]
        ELSE [B |-> B, out |-> <<TocOwn(level, order, title, trim(item.id), href)>>]

\* one nav-point's own contribution: R.B the fields after it, R.out the entries it adds.
\* idList[href] is taken for a key when it is a non-empty text or what idList inherits
\* under that name; element.title = title throws when this.manifest has no such key.
navPointEntry(B, item, path, idList, level) ==
    LET title == trim(item.text)
        num == toNumber(item.playOrder)
        order == IF num.nan THEN 0 ELSE num.val
        src == trim(item.src)
        href == join(path \o <<src>>)
        listed == Has(idList, href) /\ idList[href] # << >>
    IN  IF ~item.hasLabel \/ src = << >> THEN [B |-> B, out |-> << >>]
        ELSE IF href \in InheritedKeys \/ (listed /\ ~Has(B.manifest.at, idList[href]))
        THEN [B |-> [B EXCEPT !.thrown = E_typeError], out |-> << >>]
        ELSE IF listed
        THEN LET ref == B.manifest.at[idList[href]] IN
             [B |-> [B EXCEPT !.heap[ref] = [@ EXCEPT !.enriched = TRUE, !.title = title,
                                                      !.order = order, !.level = level]],
              out |-> <<TocAlias(ref)>>]
        ELSE [B |-> B, out |-> <<TocOwn(level, order, title, trim(item.id), href)>>]

RECURSIVE walkNavMap(_, _, _, _, _)
RECURSIVE walkItems(_, _, _, _, _)
walkItems(B, items, path, idList, level) ==
    IF items = << >> THEN [B |-> B, out |-> << >>]
    ELSE LET item == Head(items)
             own == navPointEntry(B, item, path, idList, level)
             kids == IF item.children # << >> /\ own.B.thrown = NoError
                     THEN walkNavMap(own.B, item.children, path, idList, level + 1)
                     ELSE [B |-> own.B, out |-> << >>]
             rest == IF kids.B.thrown = NoError
                     THEN walkItems(kids.B, Tail(items), path, idList, level)
                     ELSE [B |-> kids.B, out |-> << >>]
         IN  [B |-> rest.B, out |-> own.out \o kids.out \o rest.out]

\* walkNavMap that gives up one level later
walkNavMap_oneDeeper(B, branch, path, idList, level) ==
    IF level > MaxLevel + 1 THEN [B |-> B, out |-> << >>]
    ELSE walkItems(B, branch, path, idList, level)

walkNavMap(B, branch, path, idList, level) ==
    IF level > MaxLevel THEN [B |-> B, out |-> << >>]
    ELSE walkItems(B, branch, path, idList, level)

(***************************************************************************)
(* The Chapter Renderer: the regular expressions of getChapter, computed   *)
(* on the text.  NUL stands for the character U+0000; it is no whitespace. *)
(***************************************************************************)
NUL == "NUL"
IsLineTerminator(c) == c \in {"\n", "\r"}
IsWord(c) ==
    \/ IsDigit(c) \/ c = "_"
    \/ \E k \in 1..26 : UpperChars[k] = c \/ LowerChars[k] = c
IsGt(c) == c = ">"
\* ["'\s>]
IsDelim(c) == c \in {"\"", "'", ">"} \/ IsSpace(c)

S_body == <<"<","b","o","d","y">>
S_bodyEnd == <<"<","/","b","o","d","y">>
S_script == <<"s","c","r","i","p","t">>
S_style == <<"s","t","y","l","e">>
S_on == <<"o","n">>
S_skip == <<"s","k","i","p","-">>
S_src == <<"s","r","c">>
S_href == <<"h","r","e","f">>

\* F of the value of v; v is evaluated once
Bind(v, F(_)) == CHOOSE y \in {F(x) : x \in {v}} : TRUE
\* the least and the greatest element of a set of positive numbers, or 0
Least(S) == Bind(S, LAMBDA ps : IF ps = {} THEN 0 ELSE CHOOSE q \in ps : \A r \in ps : q <= r)
Greatest(S) == Bind(S, LAMBDA ps : IF ps = {} THEN 0 ELSE CHOOSE q \in ps : \A r \in ps : r <= q)

\* the least index k >= from with Test(s[k]), or 0
firstIndex(s, from, Test(_)) == Least({k \in from..Len(s) : Test(s[k])})

\* the least index k >= from with ~Test(s[k]), or Len(s) + 1
firstOther(s, from, Test(_)) ==
    Bind(Least({k \in from..Len(s) : ~Test(s[k])}), LAMBDA k : IF k = 0 THEN Len(s) + 1 ELSE k)

startsWith(s, p, pat) ==
    p >= 1 /\ p + Len(pat) - 1 <= Len(s) /\ SubSeq(s, p, p + Len(pat) - 1) = pat
\* the same under the flag i; pat is in lower case
startsWithCI(s, p, pat) ==
    p >= 1 /\ p + Len(pat) - 1 <= Len(s) /\ toLowerCase(SubSeq(s, p, p + Len(pat) - 1)) = pat

\* parts.join(sep)
RECURSIVE joinSep(_, _)
joinSep(parts, sep) ==
    IF parts = << >> THEN << >>
    ELSE IF Len(parts) = 1 THEN parts[1]
    ELSE parts[1] \o <<sep>> \o joinSep(Tail(parts), sep)

\* str.replace(/\r?\n/g, "\u0000"): a "\r" before a "\n" goes, and every "\n" becomes NUL
RECURSIVE dropReturns(_, _)
dropReturns(s, p) ==
    Bind(Least({k \in p..(Len(s) - 1) : s[k] = "\r" /\ s[k + 1] = "\n"}), LAMBDA q :
        IF q = 0 THEN SubSeq(s, p, Len(s))
        ELSE SubSeq(s, p, q - 1) \o dropReturns(s, q + 1))

collapseBreaks(s) ==
    Bind(dropReturns(s, 1), LAMBDA u : [k \in 1..Len(u) |-> IF u[k] = "\n" THEN NUL ELSE u[k]])

\* s.replace(/\u0000/g, "\n")
restoreBreaks(s) == [k \in 1..Len(s) |-> IF s[k] = NUL THEN "\n" ELSE s[k]]

\* where a group (.*) or (.*?) that starts after index g ends at the latest
lineEnd(s, g) ==
    Bind(firstIndex(s, g + 1, IsLineTerminator), LAMBDA lt : IF lt = 0 THEN Len(s) + 1 ELSE lt)

\* /<body[^>]*?>(.*)<\/body[^>]*?>/i tried at p: << the group >>, or << >> for no match
bodyMatchAt(s, p) ==
    IF ~startsWithCI(s, p, S_body) THEN << >>
    ELSE Bind(firstIndex(s, p + Len(S_body), IsGt), LAMBDA g :
         IF g = 0 THEN << >>
         ELSE Bind(Greatest({q \in (g + 1)..lineEnd(s, g) :
                               /\ startsWithCI(s, q, S_bodyEnd)
                               /\ firstIndex(s, q + Len(S_bodyEnd), IsGt) # 0}),
                   LAMBDA q : IF q = 0 THEN << >> ELSE << SubSeq(s, g + 1, q - 1) >>))

\* s.replace(/<body ... >/i, (_o, d) => { s = d.trim(); return ""; })
keepBody(s) ==
    Bind(Least({p \in 1..Len(s) : bodyMatchAt(s, p) # << >>}), LAMBDA p :
        IF p = 0 THEN s ELSE Bind(bodyMatchAt(s, p)[1], LAMBDA d : trim(d)))

\* /<tag[^>]*?>(.*?)<\/tag[^>]*?>/gi tried at p: the index the match ends at, or 0
blockEndAt(s, p, tag) ==
    IF ~startsWithCI(s, p, <<"<">> \o tag) THEN 0
    ELSE Bind(firstIndex(s, p + Len(tag) + 1, IsGt), LAMBDA g :
         IF g = 0 THEN 0
         ELSE Bind(Least({q \in (g + 1)..lineEnd(s, g) : startsWithCI(s, q, <<"<", "/">> \o tag)}),
                   LAMBDA q : IF q = 0 THEN 0 ELSE firstIndex(s, q + Len(tag) + 2, IsGt)))

\* s.replace(/<tag ... >/gi, () => "") from index p on
RECURSIVE stripBlocks(_, _, _)
stripBlocks(s, tag, p) ==
    Bind(Least({q \in p..Len(s) : blockEndAt(s, q, tag) # 0}), LAMBDA q :
        IF q = 0 THEN SubSeq(s, p, Len(s))
        ELSE Bind(blockEndAt(s, q, tag), LAMBDA e :
                  SubSeq(s, p, q - 1) \o stripBlocks(s, tag, e + 1)))

NoMatch == [ok |-> FALSE, vs |-> 0, t |-> 0]
Match(vs, t) == [ok |-> TRUE, vs |-> vs, t |-> t]

\* \s*=\s*["']?[^"'\s>]*?["'\s>] tried at e: where the value starts (vs) and the index
\* of the terminating character (t)
attrTail(s, e) ==
    Bind(firstOther(s, e, IsSpace), LAMBDA i1 :
        IF i1 > Len(s) \/ s[i1] # "=" THEN NoMatch
        ELSE Bind(firstOther(s, i1 + 1, IsSpace), LAMBDA i3 :
             Bind(i3 <= Len(s) /\ s[i3] \in {"\"", "'"}, LAMBDA quoted :
             Bind(firstIndex(s, IF quoted THEN i3 + 1 ELSE i3, IsDelim), LAMBDA t :
                  IF quoted /\ t # 0 THEN Match(i3 + 1, t)
                  ELSE IF quoted THEN Match(i3, i3)
                  ELSE IF t # 0 THEN Match(i3, t)
                  ELSE IF i3 > i1 + 1 THEN Match(i3 - 1, i3 - 1)
                  ELSE NoMatch))))

\* /(\s)(on\w+)(\s*=\s*["']?[^"'\s>]*?["'\s>])/g tried at p
onMatchAt(s, p) ==
    IF IsSpace(s[p]) /\ startsWith(s, p + 1, S_on)
    THEN Bind(firstOther(s, p + 3, IsWord), LAMBDA e : IF e > p + 3 THEN attrTail(s, e) ELSE NoMatch)
    ELSE NoMatch

\* the replacement of the event handlers, from index p on: a + "skip-" + b + c
RECURSIVE skipHandlers(_, _)
skipHandlers(s, p) ==
    Bind(Least({q \in p..Len(s) : onMatchAt(s, q).ok}), LAMBDA q :
        IF q = 0 THEN SubSeq(s, p, Len(s))
        ELSE Bind(onMatchAt(s, q).t, LAMBDA t :
                  SubSeq(s, p, q) \o S_skip \o SubSeq(s, q + 1, t) \o skipHandlers(s, t + 1)))

\* /(\sname\s*=\s*["']?)([^"'\s>]*?)(["'\s>])/g tried at p
attrMatchAt(s, p, name) ==
    IF IsSpace(s[p]) /\ startsWith(s, p + 1, name) THEN attrTail(s, p + 1 + Len(name))
    ELSE NoMatch

\* for (const k of keys) if (Test(this.manifest[k].href)) { element = this.manifest[k]; break; }
findElement(B, Test(_)) ==
    Bind(Least({k \in 1..Len(B.manifest.keys) : Test(B.heap[B.manifest.at[B.manifest.keys[k]]].href)}),
         LAMBDA k : IF k = 0 THEN << >> ELSE <<B.heap[B.manifest.at[B.manifest.keys[k]]]>>)

\* the callback of "replace images"
replaceImage(B, path, a, b, c) ==
    Bind(trim(join(path \o <<b>>)), LAMBDA img :
    Bind(findElement(B, LAMBDA h : h = img), LAMBDA element :
         IF element # << >> THEN a \o imageroot \o element[1].id \o <<"/">> \o img \o <<c>>
         ELSE << >>))

\* the callback of "replace links"
replaceLink(B, path, a, b, c) ==
    Bind(IF b # << >> THEN split(b, "#") ELSE << >>, LAMBDA linkparts :
    Bind(IF linkparts # << >> THEN trim(join(path \o <<linkparts[1]>>)) ELSE << >>, LAMBDA link :
    Bind(findElement(B, LAMBDA h : split(h, "#")[1] = link), LAMBDA element :
         IF element = << >> THEN a \o b \o <<c>>
         ELSE a \o linkroot \o element[1].id \o <<"/">> \o link
                \o (IF Len(linkparts) > 1 THEN <<"#">> \o joinSep(Tail(linkparts), "#") ELSE << >>)
                \o <<c>>)))

RECURSIVE replaceImages(_, _, _, _)
replaceImages(B, path, s, p) ==
    Bind(Least({q \in p..Len(s) : attrMatchAt(s, q, S_src).ok}), LAMBDA q :
        IF q = 0 THEN SubSeq(s, p, Len(s))
        ELSE Bind(attrMatchAt(s, q, S_src), LAMBDA mt :
                  SubSeq(s, p, q - 1)
                      \o replaceImage(B, path, SubSeq(s, q, mt.vs - 1), SubSeq(s, mt.vs, mt.t - 1), s[mt.t])
                      \o replaceImages(B, path, s, mt.t + 1)))

RECURSIVE replaceLinks(_, _, _, _)
replaceLinks(B, path, s, p) ==
    Bind(Least({q \in p..Len(s) : attrMatchAt(s, q, S_href).ok}), LAMBDA q :
        IF q = 0 THEN SubSeq(s, p, Len(s))
        ELSE Bind(attrMatchAt(s, q, S_href), LAMBDA mt :
                  SubSeq(s, p, q - 1)
                      \o replaceLink(B, path, SubSeq(s, q, mt.vs - 1), SubSeq(s, mt.vs, mt.t - 1), s[mt.t])
                      \o replaceLinks(B, path, s, mt.t + 1)))

\* the callback getChapter gives getChapterRaw, for the text str
renderChapter(B, str) ==
    Bind(dirOf(B.rootFile), LAMBDA path :
    Bind(collapseBreaks(str), LAMBDA s0 :
    Bind(keepBody(s0), LAMBDA s1 :
    Bind(stripBlocks(s1, S_script, 1), LAMBDA s2 :
    Bind(stripBlocks(s2, S_style, 1), LAMBDA s3 :
    Bind(skipHandlers(s3, 1), LAMBDA s4 :
    Bind(replaceImages(B, path, s4, 1), LAMBDA s5 :
    Bind(replaceLinks(B, path, s5, 1), LAMBDA s6 :
    Bind(restoreBreaks(s6), LAMBDA s7 : trim(s7))))))))))

(***************************************************************************)
(* The steps of a parse invocation.  A step runs from one suspension to    *)
(* the next; it takes and returns the record o of what the invocation has  *)
(* at hand: its position, the instance's fields (o.B), the waits it has    *)
(* issued (o.issue), what the wait will deliver (o.data), and the          *)
(* exception thrown with the stage it was thrown in.                       *)
(***************************************************************************)
Throw(o, stage, msg) == [o EXCEPT !.thrown = msg, !.stage = stage]

\* zip.readFile(name, cb); what cb will get
readEntry(a, name) ==
    IF HasEntry(a, name) THEN EntryOf(a, name) ELSE [kind |-> "missing", name |-> name]

ReadFile(o, tag, name, next) ==
    [o EXCEPT !.issue = Append(@, tag), !.data = readEntry(o.zip, name), !.pc = next]

ParseXml(o, next) == [o EXCEPT !.issue = Append(@, "parseXml"), !.pc = next]

\* resetBook that leaves the guide as it is
resetBook_keepGuide(B) ==
    [B EXCEPT !.metadata = EmptyMap, !.manifest = EmptyManifest,
              !.spine = EmptySpine, !.flow = << >>, !.toc = << >>, !.heap = << >>]

\* the fields parse() assigns before it starts the resolution
resetBook(B) ==
    [B EXCEPT !.metadata = EmptyMap, !.manifest = EmptyManifest, !.guide = << >>,
              !.spine = EmptySpine, !.flow = << >>, !.toc = << >>, !.heap = << >>]

ResetFields == {"metadata", "manifest", "guide", "spine", "flow", "toc"}

parseReset(o) ==
    [o EXCEPT !.containerFile = << >>, !.mimeFile = << >>, !.rootFile = << >>,
              !.B = resetBook(o.B), !.wrote = ResetFields]

\* _getRootFiles up to its read
_getRootFiles_find(o) ==
    LET f == FindName(Archives[o.zip].names, S_containerXml) IN
    IF f = << >> THEN Throw(o, "container", E_noContainer)
    ELSE ReadFile([o EXCEPT !.containerFile = f], "container", f, "cont_read")

\* _checkMimeType_find with the container read issued beside the mimetype read
_checkMimeType_find_parallel(o) ==
    LET f == FindName(Archives[o.zip].names, S_mimetype)
        c == FindName(Archives[o.zip].names, S_containerXml)
    IN  IF f = << >> THEN Throw(o, "mimetype", E_noMimetype)
        ELSE ReadFile(ReadFile([o EXCEPT !.mimeFile = f], "container", c, "cont_read"),
                      "mimetype", f, "mime_read")

\* _checkMimeType_find that goes on to the container when no mimetype entry exists
_checkMimeType_find_lenient(o) ==
    LET f == FindName(Archives[o.zip].names, S_mimetype) IN
    IF f = << >> THEN _getRootFiles_find(o)
    ELSE ReadFile([o EXCEPT !.mimeFile = f], "mimetype", f, "mime_read")

\* _checkMimeType up to its read
_checkMimeType_find(o) ==
    LET f == FindName(Archives[o.zip].names, S_mimetype) IN
    IF f = << >> THEN Throw(o, "mimetype", E_noMimetype)
    ELSE ReadFile([o EXCEPT !.mimeFile = f], "mimetype", f, "mime_read")

\* _open, and what runs after it up to the first read
_open(o, a) ==
    LET o1 == [o EXCEPT !.arch = a] IN
    IF ~Archives[a].valid THEN Throw(o1, "open", E_invalidFile)
    ELSE IF Archives[a].names = << >> THEN Throw([o1 EXCEPT !.zip = a], "open", E_noFiles)
    ELSE _checkMimeType_find([o1 EXCEPT !.zip = a])

\* _checkMimeType from its read on, then _getRootFiles up to its read
_checkMimeType_check(o) ==
    LET txt == IF o.data.kind = "text" THEN trim(toLowerCase(o.data.text)) ELSE << >> IN
    IF txt # S_epubZip THEN Throw(o, "mimetype", E_badMimetype)
    ELSE _getRootFiles_find(o)

\* the first rootfile of the OEBPS package type with a full-path, or none (0)
FirstRootfile(rfs, lower) ==
    LET ok(k) == /\ (IF lower THEN toLowerCase(rfs[k].mediaType) ELSE rfs[k].mediaType) = S_oebpsPackage
                 /\ rfs[k].fullPath # << >>
    IN  IF \E k \in 1..Len(rfs) : ok(k)
        THEN CHOOSE k \in 1..Len(rfs) : ok(k) /\ \A j \in 1..(k - 1) : ~ok(j)
        ELSE 0

\* _handleRootFile up to its read
_handleRootFile_read(o) == ReadFile(o, "package", o.rootFile, "pkg_read")

\* _getRootFiles from the parsed container.xml on (event variant: the text was lower-cased)
_getRootFiles_event(o) ==
    LET rfs == o.data.rootfiles
        k == FirstRootfile(rfs, TRUE)
        filename == IF k = 0 THEN << >> ELSE trim(toLowerCase(rfs[k].fullPath))
        found == FindName(Archives[o.zip].names, filename)
    IN  IF o.data.kind = "bad" THEN Throw(o, "container", Msg("", o.data.diag))
        ELSE IF rfs = << >> THEN Throw(o, "rootfile", E_noRootfiles)
        ELSE IF Len(rfs) = 1 /\ k = 0 THEN Throw(o, "rootfile", E_rootfileFormat)
        ELSE IF filename = << >> THEN Throw(o, "rootfile", E_emptyRootfile)
        ELSE IF found = << >> THEN Throw(o, "rootfile", E_rootfileNotFound)
        ELSE _handleRootFile_read([o EXCEPT !.rootFile = found])

\* _getRootFiles from its read on (promise variant)
_getRootFiles_promise(o) ==
    LET rfs == o.data.rootfiles
        k == FirstRootfile(rfs, TRUE)
    IN  IF o.data.kind = "bad" THEN Throw(o, "container", Msg("", o.data.diag))
        ELSE IF rfs = << >> THEN Throw(o, "rootfile", E_noRootfiles)
        ELSE IF k = 0 THEN Throw(o, "rootfile", E_rootfileNotFound)
        ELSE _handleRootFile_read([o EXCEPT !.rootFile = rfs[k].fullPath])

\* _parseTOC up to its read
_parseTOC_read(o) ==
    LET tocHref == o.B.heap[o.B.spine.toc].href
        o1 == [o EXCEPT !.loc = [path |-> dirOf(tocHref),
                                 idList |-> buildIdList(o.B, o.B.manifest.keys, EmptyMap)]]
    IN  ReadFile(o1, "navigation", tocHref, "toc_read")

\* the end of _parse: emit("end"), or the promise of parse() resolves
finish(o) == [o EXCEPT !.pc = "done"]

\* _parseRootFile on the parsed package document, and what follows it
_parseRootFile_step(o, v) ==
    LET B0 == [o.B EXCEPT !.rootFile = o.rootFile]
        B1 == _parseRootFile(B0, o.data, v)
        o1 == [o EXCEPT !.B = [B1 EXCEPT !.thrown = NoError],
                        !.wrote = {"version"} \cup {f \in ResetFields : B1[f] # B0[f]}]
    IN  IF o.data.kind = "missing" THEN Throw(o, "package", E_entryNotFound(o.data.name))
        ELSE IF o.data.kind = "bad" THEN Throw(o, "package", Msg("", o.data.diag))
        ELSE IF B1.thrown # NoError THEN Throw(o1, "package", B1.thrown)
        ELSE IF B1.spine.toc # 0 THEN _parseTOC_read(o1)
        ELSE finish(o1)

\* _parseTOC from the parsed navigation document on
_parseTOC_walk(o) ==
    LET w == walkNavMap(o.B, o.data.navPoints, o.loc.path, o.loc.idList, 0) IN
    IF o.data.kind = "bad" THEN Throw(o, "navigation", E_tocParse(o.data.diag))
    ELSE IF o.data.navPoints = << >> THEN finish(o)
    ELSE IF w.B.thrown # NoError
    THEN Throw([o EXCEPT !.B = [w.B EXCEPT !.thrown = NoError]], "navigation", w.B.thrown)
    ELSE finish([o EXCEPT !.B = [w.B EXCEPT !.toc = w.out]])

\* _parseTOC when its read ends
_parseTOC_data(o, v) ==
    IF o.data.kind = "missing" THEN Throw(o, "navigation", E_entryNotFound(o.data.name))
    ELSE IF v = "event" THEN ParseXml(o, "toc_parse")
    ELSE _parseTOC_walk(o)

(***************************************************************************)
(* Retrieval: getChapterRaw, getChapter, getImage and getFile.  A call     *)
(* runs from its invocation to the wait of its archive read (startCall)    *)
(* and from the end of that wait to its completion (finishCall).           *)
(***************************************************************************)
\* what a call holds while no wait of it is outstanding
NoData == [kind |-> "none"]

S_getChapter == "getChapter"
S_getChapterRaw == "getChapterRaw"
S_getImage == "getImage"
S_getFile == "getFile"

S_svg == <<"i","m","a","g","e","/","s","v","g","+","x","m","l">>
S_imagePrefix == <<"i","m","a","g","e","/">>
E_fileNotFound == Msg("File not found", << >>)
E_chapterMime == Msg("Invalid mime type for chapter", << >>)
E_imageMime == Msg("Invalid mime type for image", << >>)
E_readFailed == Msg("Reading archive failed", << >>)
\* this.manifest[id], with its "media-type" and href; an absent attribute is << >>,
\* and the text of an undefined href is "undefined"
lookupItem(B, id) ==
    IF Has(B.manifest.at, id)
    THEN [kind |-> "item", mt |-> B.heap[B.manifest.at[id]].mt, href |-> B.heap[B.manifest.at[id]].href]
    ELSE IF id \in InheritedKeys
    THEN [kind |-> "inherited", mt |-> << >>, href |-> S_undefined]
    ELSE [kind |-> "absent", mt |-> << >>, href |-> << >>]

NoResult == [kind |-> "none", err |-> NoError, text |-> << >>, mime |-> << >>]
Failure(e) == [NoResult EXCEPT !.kind = "error", !.err = e]
\* an exception thrown to the caller of the operation or out of its callback (event
\* variant), or the rejection of its promise (promise variant)
Thrown(e) == [NoResult EXCEPT !.kind = "thrown", !.err = e]
Delivered(text, mime) == [NoResult EXCEPT !.kind = "ok", !.text = text, !.mime = mime]

\* mediaType !== "application/xhtml+xml" && mediaType !== "image/svg+xml"
chapterGate(mt) == mt # MT_xhtml /\ mt # S_svg
\* imageGate that takes the media type as it is declared, surrounding whitespace included
imageGate_asDeclared(mt) == ~startsWith(toLowerCase(mt), 1, S_imagePrefix)

\* !(mediaType || "").toLowerCase().trim().startsWith("image/")
imageGate(mt) == ~startsWith(trim(toLowerCase(mt)), 1, S_imagePrefix)

\* the operation from its invocation to its archive read; z is this.zip.  The event
\* variant's readFile calls back at once for a name that is no entry.
startCall(B, z, v, op, id) ==
    LET it == lookupItem(B, id)
        d == readEntry(z, it.href)
        ended(r, k) == [pc |-> "done", data |-> NoData, result |-> r, issued |-> k]
    IN  IF it.kind = "absent" THEN ended(Failure(E_fileNotFound), 0)
        ELSE IF op \in {S_getChapter, S_getChapterRaw} /\ chapterGate(it.mt)
        THEN ended(Failure(E_chapterMime), 0)
        ELSE IF op = S_getImage /\ imageGate(it.mt) THEN ended(Failure(E_imageMime), 0)
        ELSE IF z = 0 THEN ended(Thrown(E_typeError), 0)
        ELSE IF v = "event" /\ d.kind = "missing" THEN ended(Failure(E_readFailed), 1)
        ELSE [pc |-> "read", data |-> d, result |-> NoResult, issued |-> 1]

\* finishCall that empties the manifest once it has delivered
finishCall_forgetful(B, v, op, id, d) ==
    LET it == lookupItem(B, id)
        r == IF d.kind = "missing" THEN Failure(E_entryNotFound(d.name))
             ELSE IF op = S_getChapterRaw THEN Delivered(d.text, << >>)
             ELSE IF op = S_getChapter
             THEN IF B.rootFile = << >> THEN Thrown(E_typeError)
                  ELSE Delivered(renderChapter(B, d.text), << >>)
             ELSE IF it.kind = "absent" THEN Thrown(E_typeError)
             ELSE Delivered(d.text, it.mt)
    IN  [B |-> [B EXCEPT !.manifest = EmptyManifest], result |-> r]

\* the operation from the end of its archive read on: R.B the fields after it, R.result
\* what the call delivers
finishCall(B, v, op, id, d) ==
    LET it == lookupItem(B, id)
        r == IF d.kind = "missing" THEN Failure(E_entryNotFound(d.name))
             ELSE IF op = S_getChapterRaw THEN Delivered(d.text, << >>)
             ELSE IF op = S_getChapter
             THEN IF B.rootFile = << >> THEN Thrown(E_typeError)
                  ELSE Delivered(renderChapter(B, d.text), << >>)
             ELSE IF it.kind = "absent" THEN Thrown(E_typeError)
             ELSE Delivered(d.text, it.mt)
    IN  [B |-> B, result |-> r]

(***************************************************************************)
(* The state machine                                                       *)
(***************************************************************************)
Invocations == 1..MaxParses
Completed(i) == pc[i] \in {"done", "failed"}
NoLoc == [path |-> << >>, idList |-> EmptyMap]

\* the entities by value: every reference replaced by the object it refers to
View(B) ==
    [metadata |-> B.metadata,
     manifest |-> [keys |-> B.manifest.keys,
                   items |-> [k \in DOMAIN B.manifest.at |-> B.heap[B.manifest.at[k]]]],
     guide |-> B.guide,
     spine |-> [toc |-> IF B.spine.toc = 0 THEN << >> ELSE <<B.heap[B.spine.toc]>>,
                contents |-> [k \in 1..Len(B.spine.contents) |-> B.heap[B.spine.contents[k]]]],
     flow |-> [k \in 1..Len(B.flow) |-> B.heap[B.flow[k]]],
     toc |-> [k \in 1..Len(B.toc) |->
                IF B.toc[k].ref > 0 THEN [alias |-> TRUE, item |-> B.heap[B.toc[k].ref]]
                ELSE [alias |-> FALSE, item |-> B.toc[k]]]]

\* the state a constructor leaves (lines 97-111 and 820-834)
NewBook ==
    [metadata |-> EmptyMap, manifest |-> EmptyManifest, guide |-> << >>, spine |-> EmptySpine,
     flow |-> << >>, toc |-> << >>, version |-> S_defaultVersion, heap |-> << >>,
     rootFile |-> << >>, thrown |-> NoError]

PublicFields == ResetFields \cup {"version"}

\* rootOf that appends nothing
rootOf_asGiven(arg, dflt) == trim(IF arg = << >> THEN dflt ELSE arg)

\* (arg || dflt).trim(), with a "/" appended unless it ends with one (lines 118-126)
rootOf(arg, dflt) ==
    LET r == trim(IF arg = << >> THEN dflt ELSE arg)
    IN  IF r # << >> /\ r[Len(r)] = "/" THEN r ELSE r \o <<"/">>

S_images == <<"/","i","m","a","g","e","s","/">>
S_links == <<"/","l","i","n","k","s","/">>

\* the arguments the constructor is called with; << >>: the argument is left out
CtorArgs ==
    { [imageroot |-> << >>, linkroot |-> << >>],
      [imageroot |-> <<"/","i","m","g">>, linkroot |-> <<" ","/","l","n","k","/"," ">>],
      [imageroot |-> <<" ">>, linkroot |-> <<"l">>] }

CallSlots == 1..MaxCalls
NoCall == [op |-> "", id |-> << >>, pc |-> "idle", data |-> NoData, result |-> NoResult,
           alone |-> NoResult, issued |-> 0, known |-> FALSE]

Init ==
    /\ variant \in {"event", "promise"}
    /\ disk \in 1..NArchives
    /\ zip = 0
    /\ metadata = NewBook.metadata /\ manifest = NewBook.manifest /\ guide = NewBook.guide
    /\ spine = NewBook.spine /\ flow = NewBook.flow /\ toc = NewBook.toc
    /\ version = NewBook.version /\ heap = NewBook.heap
    /\ containerFile = << >> /\ mimeFile = << >> /\ rootFile = << >>
    /\ n = 0
    /\ pc = [i \in Invocations |-> "idle"]
    /\ data = [i \in Invocations |-> NoData]
    /\ pending = [i \in Invocations |-> 0]
    /\ reads = [i \in Invocations |-> << >>]
    /\ ends = [i \in Invocations |-> 0]
    /\ errors = [i \in Invocations |-> 0]
    /\ err = [i \in Invocations |-> NoError]
    /\ failStage = [i \in Invocations |-> ""]
    /\ writer = [f \in PublicFields |-> 0]
    /\ loc = [i \in Invocations |-> NoLoc]
    /\ snap = [i \in Invocations |-> View(NewBook)]
    /\ archOf = [i \in Invocations |-> 0]
    /\ failures = {}
    /\ args \in CtorArgs
    /\ imageroot = rootOf(args.imageroot, S_images)
    /\ linkroot = rootOf(args.linkroot, S_links)
    /\ ncalls = 0
    /\ calls = [c \in CallSlots |-> NoCall]

\* what invocation i has at hand when a step of it starts
Base(i) ==
    [pc |-> pc[i], thrown |-> NoError, stage |-> "", B |-> Book,
     mimeFile |-> mimeFile, containerFile |-> containerFile, rootFile |-> rootFile,
     zip |-> zip, arch |-> archOf[i], data |-> data[i], issue |-> << >>,
     loc |-> loc[i], wrote |-> {}]

IsEntryRead(tag) == tag \in {"mimetype", "container", "package", "navigation"}

\* The step of invocation i that ended in o takes effect.  resumed: the number of
\* waits the step consumed.  A step that throws ends in the catch of _parse, which
\* emits 'error' (event variant), or rejects the promise of parse() (promise variant).
\* A step that finishes emits 'end', whose listener may throw inside the try of
\* _parse (lines 160-162), or resolves the promise.
Apply(i, o, resumed) ==
    LET failed == o.thrown # NoError
        finished == ~failed /\ o.pc = "done"
    IN  \E listenerThrows \in (IF finished /\ variant = "event" THEN BOOLEAN ELSE {FALSE}) :
        /\ pc' = [pc EXCEPT ![i] = IF failed THEN "failed" ELSE o.pc]
        /\ metadata' = o.B.metadata /\ manifest' = o.B.manifest /\ guide' = o.B.guide
        /\ spine' = o.B.spine /\ flow' = o.B.flow /\ toc' = o.B.toc
        /\ version' = o.B.version /\ heap' = o.B.heap
        /\ containerFile' = o.containerFile /\ mimeFile' = o.mimeFile /\ rootFile' = o.rootFile
        /\ zip' = o.zip
        /\ data' = [data EXCEPT ![i] = o.data]
        /\ loc' = [loc EXCEPT ![i] = o.loc]
        /\ pending' = [pending EXCEPT ![i] = @ - resumed + Len(o.issue)]
        /\ reads' = [reads EXCEPT ![i] = @ \o SelectSeq(o.issue, IsEntryRead)]
        /\ ends' = [ends EXCEPT ![i] = IF finished THEN @ + 1 ELSE @]
        /\ errors' = [errors EXCEPT ![i] = IF failed \/ listenerThrows THEN @ + 1 ELSE @]
        /\ err' = [err EXCEPT ![i] = IF failed THEN o.thrown
                                     ELSE IF listenerThrows THEN E_listener ELSE @]
        /\ failStage' = [failStage EXCEPT ![i] = IF failed THEN o.stage ELSE @]
        /\ failures' = IF failed THEN failures \cup {[stage |-> o.stage, msg |-> o.thrown]}
                       ELSE failures
        /\ writer' = [f \in PublicFields |-> IF f \in o.wrote THEN i ELSE writer[f]]
        /\ snap' = [snap EXCEPT ![i] = IF failed \/ finished THEN View(o.B) ELSE @]
        /\ archOf' = [archOf EXCEPT ![i] = o.arch]
        /\ UNCHANGED <<variant, disk, args, imageroot, linkroot, ncalls, calls>>

\* parse(): the caller issues it when no other invocation is in flight (section 5 of
\* the specification asks callers to serialize them)
Parse ==
    /\ n < MaxParses
    /\ \A j \in 1..n : Completed(j)
    /\ n' = n + 1
    /\ Apply(n + 1,
             IF variant = "event" THEN _open(parseReset(Base(n + 1)), disk)
             ELSE [parseReset(Base(n + 1)) EXCEPT !.issue = <<"open">>, !.pc = "open"],
             0)

\* promise variant: readFile(this.filename) and JSZip.loadAsync end
OpenDone(i) ==
    /\ pc[i] = "open"
    /\ Apply(i, _open(Base(i), disk), 1)
    /\ UNCHANGED n

MimeRead(i) ==
    /\ pc[i] = "mime_read"
    /\ Apply(i, _checkMimeType_check(Base(i)), 1)
    /\ UNCHANGED n

ContainerRead(i) ==
    /\ pc[i] = "cont_read"
    /\ Apply(i, IF variant = "event" THEN ParseXml(Base(i), "cont_parse")
                ELSE _getRootFiles_promise(Base(i)), 1)
    /\ UNCHANGED n

ContainerParsed(i) ==
    /\ pc[i] = "cont_parse"
    /\ Apply(i, _getRootFiles_event(Base(i)), 1)
    /\ UNCHANGED n

RootRead(i) ==
    /\ pc[i] = "pkg_read"
    /\ Apply(i, IF variant = "event" THEN ParseXml(Base(i), "pkg_parse")
                ELSE _parseRootFile_step(Base(i), variant), 1)
    /\ UNCHANGED n

RootParsed(i) ==
    /\ pc[i] = "pkg_parse"
    /\ Apply(i, _parseRootFile_step(Base(i), variant), 1)
    /\ UNCHANGED n

TocRead(i) ==
    /\ pc[i] = "toc_read"
    /\ Apply(i, _parseTOC_data(Base(i), variant), 1)
    /\ UNCHANGED n

TocParsed(i) ==
    /\ pc[i] = "toc_parse"
    /\ Apply(i, _parseTOC_walk(Base(i)), 1)
    /\ UNCHANGED n

\* the archive stored at this.filename is replaced by another one
SwapArchive ==
    /\ 0 < n /\ n < MaxParses
    /\ \A j \in 1..n : Completed(j)
    /\ \E a \in 1..NArchives : a # disk /\ disk' = a
    /\ UNCHANGED <<variant, zip, metadata, manifest, guide, spine, flow, toc, version,
                   heap, containerFile, mimeFile, rootFile, n, pc, data, pending, reads,
                   ends, errors, err, failStage, writer, loc, snap, archOf, failures,
                   args, imageroot, linkroot, ncalls, calls>>

Next ==
    \/ Parse
    \/ SwapArchive
    \/ \E i \in Invocations :
        \/ OpenDone(i)
        \/ MimeRead(i)
        \/ ContainerRead(i)
        \/ ContainerParsed(i)
        \/ RootRead(i)
        \/ RootParsed(i)
        \/ TocRead(i)
        \/ TocParsed(i)

Spec == Init /\ [][Next]_vars

(***************************************************************************)
(* Retrievals on an instance: before its parse, and after it                *)
(***************************************************************************)
ChapterIds == {ChapterId(j) : j \in 1..NChapters}

\* the calls a caller issues
Requests ==
    {[op |-> S_getChapter, id |-> x] : x \in {ChapterId(1), Id_css, Id_zz, Id_constructor}}
        \cup {[op |-> S_getChapterRaw, id |-> x] : x \in {ChapterId(1), Id_v, Id_css, Id_zz, Id_constructor}}
        \cup {[op |-> S_getImage, id |-> x] : x \in {Id_i, Id_j, Id_v, Id_css, Id_zz, Id_constructor}}
        \cup {[op |-> S_getFile, id |-> x] : x \in {Id_css, Id_f, Id_zz, Id_constructor}}

CallPending(c) == calls[c].pc = "read"

\* the operation rq.op is called with rq.id, while no parse is in flight.  alone: what
\* the call delivers when its archive read ends before anything else runs; known:
\* whether the id is a key of the manifest as the call is made; issued: the number of
\* times the call invoked the archive's readFile.
Call(c, rq) ==
    /\ ncalls < MaxCalls /\ c = ncalls + 1
    /\ \A j \in 1..n : Completed(j)
    /\ \E st \in {startCall(Book, zip, variant, rq.op, rq.id)} :
          calls' = [calls EXCEPT ![c] =
              [op |-> rq.op, id |-> rq.id, pc |-> st.pc, data |-> st.data,
               result |-> st.result, issued |-> st.issued,
               known |-> Has(manifest.at, rq.id),
               alone |-> IF st.pc = "done" THEN st.result
                         ELSE finishCall(Book, variant, rq.op, rq.id, st.data).result]]
    /\ ncalls' = ncalls + 1
    /\ UNCHANGED <<variant, disk, zip, metadata, manifest, guide, spine, flow, toc, version,
                   heap, containerFile, mimeFile, rootFile, n, pc, data, pending, reads,
                   ends, errors, err, failStage, writer, loc, snap, archOf, failures,
                   args, imageroot, linkroot>>

StartCall(c) == \E rq \in Requests : Call(c, rq)

\* the archive read of call c ends
CallDone(c) ==
    /\ CallPending(c)
    /\ \E R \in {finishCall(Book, variant, calls[c].op, calls[c].id, calls[c].data)} :
           /\ calls' = [calls EXCEPT ![c].pc = "done", ![c].data = NoData, ![c].result = R.result]
           /\ metadata' = R.B.metadata /\ manifest' = R.B.manifest /\ guide' = R.B.guide
           /\ spine' = R.B.spine /\ flow' = R.B.flow /\ toc' = R.B.toc
           /\ version' = R.B.version /\ heap' = R.B.heap
    /\ UNCHANGED <<variant, disk, zip, containerFile, mimeFile, rootFile, n, pc, data, pending,
                   reads, ends, errors, err, failStage, writer, loc, snap, archOf, failures,
                   args, imageroot, linkroot, ncalls>>

\* the parse of the instance, issued while no retrieval is in flight
ParseFirst ==
    /\ n = 0
    /\ \A c \in CallSlots : ~CallPending(c)
    /\ Parse

\* the archives behind this.filename: 4 (no mimetype entry) and 21 (the book of chapters)
UseArchives == {4, 21}

InitUse == Init /\ disk \in UseArchives

NextUse ==
    \/ ParseFirst
    \/ \E i \in Invocations :
        \/ OpenDone(i)
        \/ MimeRead(i)
        \/ ContainerRead(i)
        \/ ContainerParsed(i)
        \/ RootRead(i)
        \/ RootParsed(i)
    \/ \E c \in CallSlots :
        \/ StartCall(c)
        \/ CallDone(c)

SpecUse == InitUse /\ [][NextUse]_vars

(***************************************************************************)
(* Chapters rendered on a resolved instance, one at a time                  *)
(***************************************************************************)
RenderRequests == {[op |-> S_getChapter, id |-> x] : x \in ChapterIds}

StartRender(c) ==
    /\ n > 0
    /\ \A d \in CallSlots : ~CallPending(d)
    /\ \E rq \in RenderRequests : Call(c, rq)

\* the archive behind this.filename: 21 (the book of chapters)
RenderArchives == {21}

InitRender == Init /\ disk \in RenderArchives

NextRender ==
    \/ ParseFirst
    \/ \E i \in Invocations :
        \/ OpenDone(i)
        \/ MimeRead(i)
        \/ ContainerRead(i)
        \/ ContainerParsed(i)
        \/ RootRead(i)
        \/ RootParsed(i)
    \/ \E c \in CallSlots :
        \/ StartRender(c)
        \/ CallDone(c)

SpecRender == InitRender /\ [][NextRender]_vars

(***************************************************************************)
(* parse() called again on the instance while an invocation is in flight    *)
(***************************************************************************)
\* parse() called while an earlier invocation has not completed: the fields are
\* reset under the invocation in flight, and a second resolution starts
ParseDuring ==
    /\ 0 < n /\ n < MaxParses
    /\ \E j \in 1..n : ~Completed(j)
    /\ n' = n + 1
    /\ Apply(n + 1,
             IF variant = "event" THEN _open(parseReset(Base(n + 1)), disk)
             ELSE [parseReset(Base(n + 1)) EXCEPT !.issue = <<"open">>, !.pc = "open"],
             0)

\* the archives behind this.filename: 1 (a book with a navigation document) and
\* 5 (a book without one)
RaceArchives == {1, 5}

InitRace == Init /\ disk \in RaceArchives /\ args = [imageroot |-> << >>, linkroot |-> << >>]

NextRace ==
    \/ Parse
    \/ ParseDuring
    \/ \E i \in Invocations :
        \/ OpenDone(i)
        \/ MimeRead(i)
        \/ ContainerRead(i)
        \/ ContainerParsed(i)
        \/ RootRead(i)
        \/ RootParsed(i)
        \/ TocRead(i)
        \/ TocParsed(i)

SpecRace == InitRace /\ [][NextRace]_vars

(***************************************************************************)
(* parse() called again while getChapter calls are in flight                *)
(***************************************************************************)
FlightRequests == {[op |-> S_getChapter, id |-> x] : x \in {ChapterId(1), ChapterId(2), Id_zz}}

\* getChapter called after the first parse has completed and before parse() is
\* called again
StartChapter(c) ==
    /\ n = 1
    /\ \E rq \in FlightRequests : Call(c, rq)

\* the archive behind this.filename: 21 (the book of chapters)
FlightArchives == {21}

InitFlight == Init /\ disk \in FlightArchives /\ args = [imageroot |-> << >>, linkroot |-> << >>]

NextFlight ==
    \/ Parse
    \/ \E i \in Invocations :
        \/ OpenDone(i)
        \/ MimeRead(i)
        \/ ContainerRead(i)
        \/ ContainerParsed(i)
        \/ RootRead(i)
        \/ RootParsed(i)
    \/ \E c \in CallSlots :
        \/ StartChapter(c)
        \/ CallDone(c)

SpecFlight == InitFlight /\ [][NextFlight]_vars

(***************************************************************************)
(* What an archive declares, read off the archive itself                   *)
(***************************************************************************)
\* the package document the container points to
DeclaredPackageName(a) ==
    LET c == EntryOf(a, FindName(Archives[a].names, S_containerXml))
    IN  FindName(Archives[a].names, toLowerCase(c.rootfiles[FirstRootfile(c.rootfiles, TRUE)].fullPath))

ChildrenOf(a, tag) ==
    SelectSeq(EntryOf(a, DeclaredPackageName(a)).children, LAMBDA el : localName(el.tag) = tag)

DeclaredItems(a) == ChildrenOf(a, S_manifest)[1].items
DeclaredItemrefs(a) == ChildrenOf(a, S_spine)[1].itemrefs
DeclaredToc(a) == ChildrenOf(a, S_spine)[1].toc

\* a book whose entries are all in place and well-formed up to the navigation document
ResolvablePackage(a) ==
    /\ Archives[a].valid
    /\ FindName(Archives[a].names, S_mimetype) # << >>
    /\ EntryOf(a, FindName(Archives[a].names, S_mimetype)).kind = "text"
    /\ trim(toLowerCase(EntryOf(a, FindName(Archives[a].names, S_mimetype)).text)) = S_epubZip
    /\ FindName(Archives[a].names, S_containerXml) # << >>
    /\ EntryOf(a, FindName(Archives[a].names, S_containerXml)).kind = "container"
    /\ FirstRootfile(EntryOf(a, FindName(Archives[a].names, S_containerXml)).rootfiles, TRUE) # 0
    /\ HasEntry(a, DeclaredPackageName(a))
    /\ EntryOf(a, DeclaredPackageName(a)).kind = "package"

\* the entry the spine's toc attribute names through the manifest, if there is one
DeclaredNavName(a) ==
    LET its == SelectSeq(DeclaredItems(a), LAMBDA d : d.id = DeclaredToc(a))
    IN  IF its = << >> THEN << >>
        ELSE join(dirOf(DeclaredPackageName(a)) \o <<its[Len(its)].href>>)

\* a resolvable book, manifest before spine, whose navigation document is malformed XML
NavigationMalformed(a) ==
    /\ ResolvablePackage(a)
    /\ Len(ChildrenOf(a, S_manifest)) = 1 /\ Len(ChildrenOf(a, S_spine)) = 1
    /\ DeclaredNavName(a) # << >>
    /\ HasEntry(a, DeclaredNavName(a))
    /\ EntryOf(a, DeclaredNavName(a)).kind = "bad"

\* at least one entry, none named mimetype in whatever letter case
NoMimetypeEntry(a) ==
    /\ Archives[a].valid
    /\ Len(Archives[a].names) >= 1
    /\ \A k \in 1..Len(Archives[a].names) : toLowerCase(Archives[a].names[k]) # S_mimetype

\* the navigation document is declared, is an entry and is well-formed, or none is declared
NavigationSound(a) ==
    \/ DeclaredNavName(a) = << >>
    \/ /\ HasEntry(a, DeclaredNavName(a))
       /\ EntryOf(a, DeclaredNavName(a)).kind = "ncx"

\* the nav-points of the navigation document an archive declares
DeclaredNavPoints(a) == EntryOf(a, DeclaredNavName(a)).navPoints

\* the nav-points that have a label and a content reference and lie at a level <= cap,
\* in document order, parents before their children
RECURSIVE Contributing(_, _, _)
Contributing(points, level, cap) ==
    IF points = << >> \/ level > cap THEN << >>
    ELSE LET p == Head(points)
             own == IF p.hasLabel /\ trim(p.src) # << >>
                    THEN << [title |-> trim(p.text), level |-> level, src |-> trim(p.src),
                             id |-> trim(p.id), playOrder |-> p.playOrder] >>
                    ELSE << >>
         IN  own \o Contributing(p.children, level + 1, cap)
                 \o Contributing(Tail(points), level, cap)

\* no two contributing nav-points refer to the same resource, and none to a resource
\* of a name that objects inherit
PlainReferences(points) ==
    LET w == Contributing(points, 0, MaxLevel)
    IN  /\ \A j, k \in 1..Len(w) : j # k => w[j].src # w[k].src
        /\ \A k \in 1..Len(w) : w[k].src \notin InheritedKeys

\* the facts above, archive by archive
ArchiveFacts ==
    [a \in 1..NArchives |->
        IF ~ResolvablePackage(a)
        THEN [resolvable |-> FALSE, navSound |-> FALSE, hasNav |-> FALSE, navPoints |-> << >>,
              plain |-> TRUE]
        ELSE [resolvable |-> TRUE,
              plain |-> IF DeclaredNavName(a) # << >> /\ NavigationSound(a)
                        THEN PlainReferences(DeclaredNavPoints(a)) ELSE TRUE,
              navSound |-> NavigationSound(a),
              hasNav |-> DeclaredNavName(a) # << >> /\ NavigationSound(a),
              navPoints |-> IF DeclaredNavName(a) # << >> /\ NavigationSound(a)
                            THEN DeclaredNavPoints(a) ELSE << >>]]

LevelsOf(entries) == [k \in 1..Len(entries) |-> entries[k].level]
TocLevels(i) == [k \in 1..Len(snap[i].toc) |-> snap[i].toc[k].item.level]

(***************************************************************************)
(* The claims                                                              *)
(***************************************************************************)
ReadOrder == <<"mimetype", "container", "package", "navigation">>
IsPrefix(s, t) == Len(s) <= Len(t) /\ s = SubSeq(t, 1, Len(s))
ResetView == View(resetBook(NewBook))

\* C1: when a parse invocation fails, at the moment the failure is delivered
\* metadata, manifest, guide, spine, flow and toc are all in their empty reset state.
C1_NoPartialStateOnFailure ==
    \A i \in 1..n : pc[i] = "failed" => snap[i] = ResetView

\* C2: within one invocation the archive reads are issued in the order mimetype,
\* container.xml, package document, navigation document, each only when the
\* invocation has no other wait outstanding and the entries before it were found;
\* the navigation document is read only after the invocation interpreted the package
\* document and the spine's toc attribute resolved to a ManifestItem.
C2_ReadsInOrderOneAtATime ==
    \A i \in 1..n :
        /\ IsPrefix(reads[i], ReadOrder)
        /\ pending[i] \in {0, 1}
        /\ Completed(i) => pending[i] = 0
        /\ i = n =>
            /\ Len(reads[i]) >= 1 => mimeFile # << >>
            /\ Len(reads[i]) >= 2 => containerFile # << >>
            /\ Len(reads[i]) >= 3 => rootFile # << >>
            /\ Len(reads[i]) >= 4 =>
                /\ writer["version"] = i
                /\ pc[i] \in {"toc_read", "toc_parse", "done", "failed"}
                /\ spine.toc # 0
                /\ spine.toc \in 1..Len(heap)

C2_Witness ==
    \E i \in 1..n : reads[i] = ReadOrder /\ pc[i] = "done" /\ Len(toc) > 0

\* C3: every parse invocation signals completion exactly once, as success or as
\* failure, never both and never twice, whatever the 'end' listener does.
C3_ExactlyOneSignal ==
    \A i \in 1..n :
        /\ ends[i] + errors[i] <= 1
        /\ Completed(i) => ends[i] + errors[i] = 1

\* C4: a parse issued after the previous one completed, on the same archive, leaves
\* metadata, manifest, guide, spine, flow and toc field for field as the previous
\* parse left them.
C4_ReparseIdempotent ==
    \A i \in 2..n :
        (Completed(i) /\ Completed(i - 1) /\ archOf[i] = archOf[i - 1])
            => snap[i] = snap[i - 1]

C4_Witness ==
    /\ n >= 2 /\ pc[1] = "done" /\ pc[2] = "done" /\ archOf[1] = archOf[2]
    /\ Len(snap[2].flow) > 0 /\ Len(snap[2].toc) > 0 /\ Len(snap[2].guide) > 0
    /\ \E k \in 1..Len(snap[2].flow) : snap[2].flow[k].enriched

\* C5: when a parse fails on an instance whose previous parse succeeded, no public
\* field still holds a value the earlier parse produced once the failure is delivered.
C5_NoStaleFieldAfterFailedReparse ==
    \A i \in 2..n :
        (i = n /\ pc[i] = "failed" /\ pc[i - 1] = "done")
            => \A f \in PublicFields : writer[f] = i

\* C6: on an archive of at least one entry, none of them named mimetype in whatever
\* letter case, parse fails with 'No mimetype file in archive', reads no entry, and
\* the manifest is empty afterwards.
C6_MissingMimetype ==
    \A i \in 1..n :
        (archOf[i] # 0 /\ NoMimetypeEntry(archOf[i]))
            => /\ pc[i] = "failed"
               /\ ends[i] = 0 /\ errors[i] = 1
               /\ err[i] = E_noMimetype
               /\ reads[i] = << >>
               /\ snap[i].manifest = ResetView.manifest
               /\ i = n => manifest = EmptyManifest /\ heap = << >>

C6_Witness ==
    \E i \in 1..n : archOf[i] # 0 /\ NoMimetypeEntry(archOf[i]) /\ pc[i] = "failed"

\* C7: when the declared navigation document is malformed XML, parse fails, never
\* signals success, and the message is 'Parsing container XML failed in TOC: '
\* followed by the parser's diagnostic.
C7_MalformedNavigation ==
    \A i \in 1..n :
        (archOf[i] # 0 /\ NavigationMalformed(archOf[i]) /\ Completed(i))
            => /\ pc[i] = "failed"
               /\ ends[i] = 0
               /\ err[i] = E_tocParse(EntryOf(archOf[i], DeclaredNavName(archOf[i])).diag)

\* C8: failures that arise in two different stages never carry the same message.
C8_MessagesIdentifyStage ==
    \A f, g \in failures : f.msg = g.msg => f.stage = g.stage

\* C9: after a successful resolution Flow is the declared itemref sequence with the
\* idrefs that are no Manifest id removed, in declared order.
C9_FlowIsDeclaredSpine ==
    \A i \in 1..n :
        pc[i] = "done" =>
            [k \in 1..Len(snap[i].flow) |-> snap[i].flow[k].id]
                = SelectSeq(DeclaredItemrefs(archOf[i]),
                            LAMBDA id : id \in DOMAIN snap[i].manifest.items)

\* C10: after resolution the href of a ManifestItem declared relative to the package
\* document's directory D is D/href, and the href of one declared archive-root-relative
\* is as declared; declared relative to D means D/href is an entry of the archive.
C10_HrefArchiveRootRelative ==
    \A i \in 1..n :
        pc[i] = "done" =>
            LET a == archOf[i]
                ds == DeclaredItems(a)
                D == dirOf(DeclaredPackageName(a))
            IN  \A k \in 1..Len(ds) :
                    LET rel == join(D \o <<ds[k].href>>)
                        got == snap[i].manifest.items[ds[k].id].href
                    IN  /\ HasEntry(a, rel) => got = rel
                        /\ (~HasEntry(a, rel) /\ HasEntry(a, ds[k].href)) => got = ds[k].href

\* C11: on an archive sound in everything but possibly the number of its items, the
\* resolution succeeds and the Manifest holds exactly one entry per declared id, with
\* the id, media type and href of the last item declared with that id.
C11_ManifestOnePerId ==
    \A i \in 1..n :
        (Completed(i) /\ archOf[i] # 0 /\ ArchiveFacts[archOf[i]].resolvable
                      /\ ArchiveFacts[archOf[i]].navSound)
            => /\ pc[i] = "done"
               /\ LET a == archOf[i]
                      ds == DeclaredItems(a)
                      ids == {ds[k].id : k \in 1..Len(ds)}
                      D == dirOf(DeclaredPackageName(a))
                      m == snap[i].manifest
                      last(id) == ds[CHOOSE k \in 1..Len(ds) :
                                        ds[k].id = id /\ \A j \in (k + 1)..Len(ds) : ds[j].id # id]
                  IN  /\ DOMAIN m.items = ids
                      /\ Len(m.keys) = Cardinality(ids)
                      /\ {m.keys[k] : k \in 1..Len(m.keys)} = ids
                      /\ \A id \in ids :
                            /\ m.items[id].id = id
                            /\ m.items[id].mt = last(id).mt
                            /\ m.items[id].href \in {last(id).href, join(D \o <<last(id).href>>)}

\* C12: every entry of the table of contents has a level >= 0, an order >= 0 and a
\* non-empty href.
C12_TocEntryFields ==
    \A i \in 1..n :
        pc[i] = "done" =>
            \A k \in 1..Len(snap[i].toc) :
                LET e == snap[i].toc[k].item
                IN  /\ e.level \in Nat
                    /\ e.order \in Nat
                    /\ e.href # << >>

\* C13 (as the code has it): the table of contents lists the contributing nav-points of
\* levels 0 through 7 only; a nav-point at level 8 or deeper is absent from it and the
\* resolution succeeds all the same.
C13_DepthCapSeven ==
    \A i \in 1..n :
        (Completed(i) /\ reads[i] = ReadOrder /\ ArchiveFacts[archOf[i]].hasNav
                      /\ ArchiveFacts[archOf[i]].plain)
            => /\ pc[i] = "done"
               /\ TocLevels(i) = LevelsOf(Contributing(ArchiveFacts[archOf[i]].navPoints, 0, 7))
               /\ \A k \in 1..Len(snap[i].toc) : snap[i].toc[k].item.level <= 7

C13_Witness ==
    \E i \in 1..n :
        /\ pc[i] = "done" /\ reads[i] = ReadOrder
        /\ \E k \in 1..Len(Contributing(ArchiveFacts[archOf[i]].navPoints, 0, 8)) :
              Contributing(ArchiveFacts[archOf[i]].navPoints, 0, 8)[k].level = 8
        /\ Len(snap[i].toc) = 8

\* C13 (as stated): the table of contents lists the contributing nav-points of levels 0
\* through 8.
C13_DepthCapEight ==
    \A i \in 1..n :
        (pc[i] = "done" /\ reads[i] = ReadOrder /\ ArchiveFacts[archOf[i]].plain)
            => TocLevels(i) = LevelsOf(Contributing(ArchiveFacts[archOf[i]].navPoints, 0, 8))

\* C14: a nav-point whose label text is empty is accepted: the resolution succeeds,
\* the point gives an entry of empty title when it has a content reference and no
\* entry of its own when it has none, and its children are walked either way.
C14_EmptyLabelAccepted ==
    \A i \in 1..n :
        (Completed(i) /\ reads[i] = ReadOrder /\ ArchiveFacts[archOf[i]].hasNav
                      /\ ArchiveFacts[archOf[i]].plain)
            => /\ pc[i] = "done"
               /\ LET want == Contributing(ArchiveFacts[archOf[i]].navPoints, 0, MaxLevel)
                  IN  [k \in 1..Len(snap[i].toc) |->
                          <<snap[i].toc[k].item.title, snap[i].toc[k].item.level>>]
                        = [k \in 1..Len(want) |-> <<want[k].title, want[k].level>>]

C14_Witness ==
    \E i \in 1..n :
        /\ pc[i] = "done" /\ reads[i] = ReadOrder
        /\ \E k \in 1..Len(ArchiveFacts[archOf[i]].navPoints) :
              LET p == ArchiveFacts[archOf[i]].navPoints[k]
              IN  p.hasLabel /\ p.text = << >> /\ p.src = << >> /\ p.children # << >>
        /\ \E k \in 1..Len(ArchiveFacts[archOf[i]].navPoints) :
              LET p == ArchiveFacts[archOf[i]].navPoints[k]
              IN  p.hasLabel /\ p.text = << >> /\ p.src # << >>
        /\ \E k \in 1..Len(snap[i].toc) :
              snap[i].toc[k].item.title = << >> /\ snap[i].toc[k].item.level = 0
        /\ \E k \in 1..Len(snap[i].toc) : snap[i].toc[k].item.level = 1

\* C15: a retrieval for an id that is no key of the Manifest fails with 'File not
\* found' and issues no archive read, before the first parse, after a failed parse and
\* after a successful one.
C15_AbsentIdFileNotFound ==
    \A c \in 1..ncalls :
        (calls[c].pc = "done" /\ ~calls[c].known)
            => /\ calls[c].result = Failure(E_fileNotFound)
               /\ calls[c].issued = 0

\* the declared media type of the item a completed call asked for
DeclaredType(c) == heap[manifest.at[calls[c].id]].mt
ChapterTypes == {MT_xhtml, MT_svg}
IsChapterCall(c) == calls[c].op \in {S_getChapter, S_getChapterRaw}
\* the entry the item's href names is in the archive
Readable(c) == HasEntry(zip, heap[manifest.at[calls[c].id]].href)

\* the gates of C16, with the image test given as a parameter
MediaTypeGates(IsImageType(_)) ==
    \A c \in 1..ncalls :
        (calls[c].pc = "done" /\ calls[c].known) =>
            /\ IsChapterCall(c) =>
                  IF DeclaredType(c) \in ChapterTypes
                  THEN Readable(c) => calls[c].result.kind = "ok"
                  ELSE calls[c].result = Failure(E_chapterMime)
            /\ calls[c].op = S_getImage =>
                  IF IsImageType(DeclaredType(c))
                  THEN Readable(c) => calls[c].result.kind = "ok"
                  ELSE calls[c].result = Failure(E_imageMime)
            /\ calls[c].op = S_getFile =>
                  /\ calls[c].result.err \notin {E_chapterMime, E_imageMime}
                  /\ Readable(c) => calls[c].result.kind = "ok"

\* C16 (as the code has it): getChapter and getChapterRaw deliver only for the XHTML and
\* the SVG type and fail with 'Invalid mime type for chapter' for any other; getImage
\* delivers only when the type, in lower case and with surrounding whitespace removed,
\* begins with 'image/' and fails with 'Invalid mime type for image' otherwise; getFile
\* has no media-type gate.
C16_MediaTypeGatesTrimmed ==
    MediaTypeGates(LAMBDA mt : IsPrefix(S_imagePrefix, trim(toLowerCase(mt))))

C16_Witness ==
    \E c, d \in 1..ncalls :
        /\ calls[c].pc = "done" /\ calls[c].op = S_getImage /\ calls[c].id = Id_j
        /\ calls[c].known /\ calls[c].result.kind = "ok"
        /\ calls[d].pc = "done" /\ calls[d].op = S_getChapter /\ calls[d].id = Id_css
        /\ calls[d].known /\ calls[d].result = Failure(E_chapterMime)

\* C16 (as stated): the same, with getImage delivering only when the type, compared
\* case-insensitively, begins with 'image/'.
C16_MediaTypeGates ==
    MediaTypeGates(LAMBDA mt : IsPrefix(S_imagePrefix, toLowerCase(mt)))

\* a tag opens somewhere in the text, in whatever letter case
HasTag(out, tag) ==
    \E p \in 1..(Len(out) - Len(tag)) : toLowerCase(SubSeq(out, p, p + Len(tag))) = <<"<">> \o tag
\* an attribute whose name begins with "on" stands after a whitespace character
HasHandler(out) ==
    \E p \in 1..Len(out) : \E e \in (p + 3)..Len(out) : \E q \in (e + 1)..Len(out) :
        /\ IsSpace(out[p])
        /\ SubSeq(out, p + 1, p + 2) = <<"o", "n">>
        /\ \A k \in (p + 3)..e : IsWord(out[k])
        /\ \A k \in (e + 1)..(q - 1) : IsSpace(out[k])
        /\ out[q] = "="
Rendered(c) == calls[c].pc = "done" /\ calls[c].op = S_getChapter /\ calls[c].result.kind = "ok"

\* C17: the text getChapter delivers holds no '<script' tag, no '<style' tag and no
\* on-prefixed attribute left as it was, whatever the chapter.
C17_RenderedClean ==
    \A c \in 1..ncalls :
        Rendered(c) =>
            /\ ~HasTag(calls[c].result.text, <<"s","c","r","i","p","t">>)
            /\ ~HasTag(calls[c].result.text, <<"s","t","y","l","e">>)
            /\ ~HasHandler(calls[c].result.text)

\* the chapter a call asked for, as its pieces
PartsOf(c) == Chapters[CHOOSE j \in 1..NChapters : ChapterId(j) = calls[c].id]
HasAttribute(parts, name) ==
    \E k \in 1..Len(parts) : parts[k].kind \in {"attr", "bare"} /\ parts[k].name = name
\* a piece with its value replaced
WithValue(part, v) ==
    IF part.kind = "attr" THEN Attr(part.lead, part.name, v).text
    ELSE Bare(part.lead, part.name, v).text
\* V resolved against the directory of the package document
ResolvedPath(V) == join(dirOf(rootFile) \o <<V>>)
\* the text before the first '#', and the text from it on
BeforeHash(V) == IF \E k \in 1..Len(V) : V[k] = "#"
                 THEN SubSeq(V, 1, (CHOOSE k \in 1..Len(V) : V[k] = "#" /\ \A j \in 1..(k - 1) : V[j] # "#") - 1)
                 ELSE V
FromHash(V) == SubSeq(V, Len(BeforeHash(V)) + 1, Len(V))
\* the ids of the ManifestItems whose href, as Shown, is P
ItemsAt(P, Shown(_)) == {id \in DOMAIN manifest.at : Shown(heap[manifest.at[id]].href) = P}

RECURSIVE Concat(_)
Concat(texts) == IF texts = << >> THEN << >> ELSE Head(texts) \o Concat(Tail(texts))
\* the pieces in a row, those of the attribute name as New gives them
Pieces(parts, name, New(_)) ==
    Concat([k \in 1..Len(parts) |->
               IF parts[k].kind \in {"attr", "bare"} /\ parts[k].name = name
               THEN New(parts[k]) ELSE parts[k].text])

\* C18: in the text getChapter delivers every src value V is {imageroot}{id}/{P} when
\* the ManifestItem id has href P, P being V resolved against the package document's
\* directory, and is the empty string when no item has; all else is as in the chapter.
C18_SrcRewritten ==
    \A c \in 1..ncalls :
        (Rendered(c) /\ HasAttribute(PartsOf(c), <<"s","r","c">>)) =>
            LET new(part) ==
                    LET P == ResolvedPath(part.value)
                        ids == ItemsAt(P, LAMBDA h : h)
                    IN  IF ids # {}
                        THEN WithValue(part, imageroot \o (CHOOSE id \in ids : TRUE) \o <<"/">> \o P)
                        ELSE WithValue(part, << >>)
            IN  calls[c].result.text = trim(Pieces(PartsOf(c), <<"s","r","c">>, new))

\* C19: in the text getChapter delivers every href value V, with P the part of V before
\* its first '#' resolved against the package document's directory, is
\* {linkroot}{id}/{P} followed by V's part from the '#' on when the ManifestItem id has
\* href P up to its own '#', and is V when no item has; all else is as in the chapter.
C19_HrefRewritten ==
    \A c \in 1..ncalls :
        (Rendered(c) /\ HasAttribute(PartsOf(c), <<"h","r","e","f">>)) =>
            LET new(part) ==
                    LET P == ResolvedPath(BeforeHash(part.value))
                        ids == ItemsAt(P, BeforeHash)
                    IN  IF ids # {}
                        THEN WithValue(part, linkroot \o (CHOOSE id \in ids : TRUE) \o <<"/">> \o P
                                                 \o FromHash(part.value))
                        ELSE part.text
            IN  calls[c].result.text = trim(Pieces(PartsOf(c), <<"h","r","e","f">>, new))

\* C20: a step of a retrieval leaves metadata, manifest, guide, spine, flow, toc,
\* version, imageroot and linkroot as they are, and every retrieval issued on a resolved
\* instance, alone or while another is in flight, delivers what it delivers when it
\* runs alone.
C20_RetrievalsIndependent ==
    /\ [](\A c \in 1..ncalls : calls[c].pc = "done" => calls[c].result = calls[c].alone)
    /\ [][calls' # calls =>
             UNCHANGED <<metadata, manifest, heap, guide, spine, flow, toc, version,
                         imageroot, linkroot>>]_vars

C20_Witness ==
    /\ n = 1 /\ pc[1] = "done" /\ ncalls = 2
    /\ calls[1].pc = "read" /\ calls[1].op = S_getChapter
    /\ calls[2].pc = "done" /\ calls[2].result.kind = "ok" /\ calls[2].issued = 1

EndsWithSlash(s) == s # << >> /\ s[Len(s)] = "/"

\* C21: imageroot and linkroot end with '/' whatever the constructor was given, are
\* '/images/' and '/links/' when the arguments were left out, and no step of a parse
\* or of a retrieval changes them.
C21_RootsSettled ==
    /\ [](/\ EndsWithSlash(imageroot) /\ EndsWithSlash(linkroot)
          /\ args.imageroot = << >> => imageroot = S_images
          /\ args.linkroot = << >> => linkroot = S_links)
    /\ [][imageroot' = imageroot /\ linkroot' = linkroot]_vars

C21_Witness ==
    /\ args.imageroot = <<"/","i","m","g">> /\ imageroot = <<"/","i","m","g","/">>
    /\ linkroot = <<"/","l","n","k","/">>
    /\ n = 1 /\ pc[1] = "done"
    /\ \E c \in 1..ncalls : calls[c].pc = "done" /\ calls[c].result.kind = "ok"

\* Number(playOrder || 0), and 0 for what is no number
OrderOf(playOrder) == IF toNumber(playOrder).nan THEN 0 ELSE toNumber(playOrder).val

\* C22: the table of contents lists the contributing nav-points in document order,
\* parents before their children: its k-th entry carries the title, the order and the
\* level of the k-th contributing nav-point, also when nav-points share a resource.
C22_TocIsPreorderListing ==
    \A i \in 1..n :
        (pc[i] = "done" /\ reads[i] = ReadOrder /\ ArchiveFacts[archOf[i]].hasNav)
            => LET want == Contributing(ArchiveFacts[archOf[i]].navPoints, 0, MaxLevel)
               IN  [k \in 1..Len(snap[i].toc) |->
                       <<snap[i].toc[k].item.title, snap[i].toc[k].item.order,
                         snap[i].toc[k].item.level>>]
                     = [k \in 1..Len(want) |->
                           <<want[k].title, OrderOf(want[k].playOrder), want[k].level>>]

\* C23: for every contributing nav-point, with H its content reference joined onto the
\* directory of the navigation document: when H is the href of a ManifestItem the entry
\* is that item, with its id, href and media type, and carries the nav-point's title,
\* order and level; when it is not, the entry stands alone with href H, the nav-point's
\* own id and its title, order and level.
C23_EntryPerReference ==
    \A i \in 1..n :
        (Completed(i) /\ reads[i] = ReadOrder /\ ArchiveFacts[archOf[i]].hasNav)
            => /\ pc[i] = "done"
               /\ LET want == Contributing(ArchiveFacts[archOf[i]].navPoints, 0, MaxLevel)
                      D == dirOf(DeclaredNavName(archOf[i]))
                      m == snap[i].manifest.items
                  IN  /\ Len(snap[i].toc) = Len(want)
                      /\ \A k \in 1..Len(want) :
                            LET H == join(D \o <<want[k].src>>)
                                ids == {id \in DOMAIN m : m[id].href = H}
                                e == snap[i].toc[k]
                            IN  /\ e.item.href = H
                                /\ e.item.title = want[k].title
                                /\ e.item.order = OrderOf(want[k].playOrder)
                                /\ e.item.level = want[k].level
                                /\ IF ids # {}
                                   THEN e.alias /\ \E id \in ids :
                                            /\ e.item.id = id
                                            /\ e.item.mt = m[id].mt
                                   ELSE ~e.alias /\ e.item.id = want[k].id

\* a name on<word>, in whatever letter case
IsHandlerName(name) ==
    /\ Len(name) > 2
    /\ toLowerCase(SubSeq(name, 1, 2)) = <<"o", "n">>
    /\ \A k \in 3..Len(name) : IsWord(name[k])
\* a chapter of handler attributes and of markup that getChapter has nothing to do with
HandlersOnly(parts) ==
    /\ \E k \in 1..Len(parts) : parts[k].kind = "attr"
    /\ \A k \in 1..Len(parts) :
          IF parts[k].kind = "raw"
          THEN \A tag \in {<<"b","o","d","y">>, <<"s","c","r","i","p","t">>, <<"s","t","y","l","e">>} :
                   ~HasTag(parts[k].text, tag)
          ELSE IsHandlerName(parts[k].name)

\* C24: getChapter renames every attribute of a name on<word>, in whatever letter case,
\* to skip-<name>; the value and the whitespace around the attribute stay as they are.
C24_HandlersRenamed ==
    \A c \in 1..ncalls :
        (Rendered(c) /\ HandlersOnly(PartsOf(c))) =>
            calls[c].result.text
                = trim(Concat([k \in 1..Len(PartsOf(c)) |->
                          LET part == PartsOf(c)[k]
                          IN  IF part.kind = "raw" THEN part.text
                              ELSE Attr(part.lead, <<"s","k","i","p","-">> \o part.name, part.value).text]))

(***************************************************************************)
(* C25: parse calls that overlap                                           *)
(***************************************************************************)
\* _parse (lines 148-163) and parse (lines 862-870): what the wait at o.pc resumes
\* with, on archive a
Resume(o, v, a) ==
    CASE o.pc = "open" -> _open(o, a)
      [] o.pc = "mime_read" -> _checkMimeType_check(o)
      [] o.pc = "cont_read" -> IF v = "event" THEN ParseXml(o, "cont_parse")
                               ELSE _getRootFiles_promise(o)
      [] o.pc = "cont_parse" -> _getRootFiles_event(o)
      [] o.pc = "pkg_read" -> IF v = "event" THEN ParseXml(o, "pkg_parse")
                              ELSE _parseRootFile_step(o, v)
      [] o.pc = "pkg_parse" -> _parseRootFile_step(o, v)
      [] o.pc = "toc_read" -> _parseTOC_data(o, v)
      [] o.pc = "toc_parse" -> _parseTOC_walk(o)

\* an invocation run to its completion with nothing beside it
RECURSIVE parseAlone(_, _, _)
parseAlone(o, v, a) ==
    IF o.thrown # NoError \/ o.pc = "done" THEN o
    ELSE parseAlone([Resume(o, v, a) EXCEPT !.issue = << >>], v, a)

\* what one parse of archive a leaves on a new instance
Alone ==
    [v \in {"event", "promise"} |-> [a \in 1..NArchives |->
        LET o0 == parseReset([pc |-> "idle", thrown |-> NoError, stage |-> "", B |-> NewBook,
                              mimeFile |-> << >>, containerFile |-> << >>, rootFile |-> << >>,
                              zip |-> 0, arch |-> 0, data |-> NoData, issue |-> << >>,
                              loc |-> NoLoc, wrote |-> {}])
            o == parseAlone(IF v = "event" THEN _open(o0, a) ELSE [o0 EXCEPT !.pc = "open"], v, a)
        IN  [ok |-> o.thrown = NoError, view |-> View(o.B)]]]

\* the positions of an invocation before the end of its container.xml stage
Early == {"open", "mime_read", "cont_read", "cont_parse"}

IdsOf(items) == [k \in 1..Len(items) |-> items[k].id]

BothResolved == n = 2 /\ pc[1] = "done" /\ pc[2] = "done"

\* C25: a second parse call issued before the first has completed races with it on
\* the entity fields.  Whenever the second call is issued while the first is still
\* before the end of its container.xml stage and both invocations resolve, on every
\* interleaving of their waits the guide holds every reference twice and the flow
\* and spine.contents every item twice, which is not what one parse of the archive
\* leaves; and when the first invocation completed before the second call, what
\* the second leaves is what one parse leaves.
C25_OverlappingParsesRace ==
    /\ []((n = 2 /\ pc[1] \in Early /\ pc[2] \in Early)
            => [](BothResolved =>
                    LET one == Alone[variant][disk].view IN
                    /\ guide = one.guide \o one.guide
                    /\ IdsOf(View(Book).flow) = IdsOf(one.flow) \o IdsOf(one.flow)
                    /\ IdsOf(View(Book).spine.contents)
                         = IdsOf(one.spine.contents) \o IdsOf(one.spine.contents)
                    /\ View(Book) # one))
    /\ []((n = 1 /\ Completed(1))
            => []((n = 2 /\ Completed(2)) => View(Book) = Alone[variant][disk].view))

\* both invocations resolved, and the guide and the flow hold their entries twice
C25_Witness ==
    /\ BothResolved
    /\ Alone[variant][disk].view.guide # << >>
    /\ guide = Alone[variant][disk].view.guide \o Alone[variant][disk].view.guide
    /\ Len(flow) = 2 * Len(Alone[variant][disk].view.flow)
    /\ Len(flow) > 0

\* the first invocation alone leaves what one parse leaves (the operators above
\* against the actions)
AloneAgrees ==
    (n = 1 /\ Completed(1)) =>
        /\ View(Book) = Alone[variant][archOf[1]].view
        /\ (pc[1] = "done") = Alone[variant][archOf[1]].ok

(***************************************************************************)
(* C26: what navigation resolution leaves alone                            *)
(***************************************************************************)
\* a step of _parseTOC of invocation i, from the end of its read on
NavStep(i) == pc[i] \in {"toc_read", "toc_parse"} /\ pc'[i] # pc[i]

RetrievalErrors == {E_fileNotFound, E_chapterMime, E_readFailed} \cup
                   {E_entryNotFound(ChapterName(j)) : j \in 1..NChapters}

\* C27: a getChapter call whose archive read was outstanding when parse() was called
\* again delivers, when the read ends, the rendered text or one of the retrieval
\* errors; it does not end in an exception.
C27_InFlightChapterCompletes ==
    \A c \in CallSlots :
        (n = 2 /\ calls[c].op = S_getChapter /\ calls[c].issued = 1 /\ calls[c].pc = "done")
            => \/ calls[c].result.kind = "ok"
               \/ calls[c].result.kind = "error" /\ calls[c].result.err \in RetrievalErrors

(***************************************************************************)
(* C28: the two variants against each other                                *)
(***************************************************************************)
OtherVariant == IF variant = "event" THEN "promise" ELSE "event"

\* C28: on every archive the two variants agree: an invocation of the one fails
\* exactly when a parse by the other fails, and when it resolves it leaves the
\* Metadata, Manifest, Guide, Spine, Flow and Toc a parse by the other leaves.
C28_VariantsEquivalent ==
    \A i \in Invocations :
        Completed(i) =>
            LET other == Alone[OtherVariant][archOf[i]] IN
            /\ (pc[i] = "done") = other.ok
            /\ pc[i] = "done" => snap[i] = other.view

\* the variants agree on every archive but 17 (a manifest of one item) and 24 (the
\* rootfile path in other letter case)
VariantsAgreeOn ==
    \A i \in Invocations :
        (Completed(i) /\ archOf[i] \notin {17, 24}) =>
            LET other == Alone[OtherVariant][archOf[i]] IN
            /\ (pc[i] = "done") = other.ok
            /\ pc[i] = "done" => snap[i] = other.view

====
